---------------------------- MODULE Spec2Model ----------------------------
(***************************************************************************)
(* Verifiable state transition core of axiomhive-desktop.                  *)
(*                                                                         *)
(*   src/src/inference.ts  StateSpaceModel (lines 181-400), the linear     *)
(*                         recurrence with hashed and signed transitions   *)
(*   src/src/server.ts     AxiomServer, the request handlers and the       *)
(*                         hash-chained audit log                          *)
(*   src/src/database.ts   AxiomDatabase, the three tables                 *)
(*   src/src/license.ts    LicenseManager and its license file             *)
(*                                                                         *)
(* JavaScript numbers are kept as exact rationals plus the three           *)
(* non-finite values; SHA-256 and Ed25519 are symbolic (a digest is its    *)
(* preimage, a signature names its signer and its message).                *)
(***************************************************************************)
EXTENDS Integers, Sequences, FiniteSets, TLC

(***************************************************************************)
(* Bounds of the model.                                                    *)
(***************************************************************************)
\* calls of transition()/reset() on the stand-alone model instances
MaxCalls == 3
\* largest value of the wall clock, Date.now()
MaxClock == 1
\* requests the server handles that write to the database
MaxRequests == 2
\* request handlers in flight together
MaxTasks == 2
\* arrays allocated for instance a and its caller
MaxHeap == 7

(***************************************************************************)
(* Numbers.  [k, n, d]: k = "fin" is the rational n/d in lowest terms with *)
(* d > 0; "nan", "inf", "ninf" are NaN, +Infinity, -Infinity.  "null" is   *)
(* JSON's null where a number is expected (it is what JSON.stringify       *)
(* writes for a non-finite number).                                        *)
(***************************************************************************)
Abs(i) == IF i < 0 THEN -i ELSE i

RECURSIVE Gcd(_, _)
Gcd(a, b) == IF b = 0 THEN a ELSE Gcd(b, a % b)

Fin(n, d) ==
    LET g == Gcd(Abs(n), Abs(d))
        s == IF d < 0 THEN -1 ELSE 1
    IN  [k |-> "fin", n |-> (s * n) \div g, d |-> (s * d) \div g]

NaN == [k |-> "nan", n |-> 0, d |-> 1]
PosInf == [k |-> "inf", n |-> 0, d |-> 1]
NegInf == [k |-> "ninf", n |-> 0, d |-> 1]
JsonNull == [k |-> "null", n |-> 0, d |-> 1]
Zero == Fin(0, 1)
One == Fin(1, 1)

IsFinite(x) == x.k = "fin"
\* the sign of a number that is not NaN: -1, 0 or 1
Sign(x) ==
    CASE x.k = "inf" -> 1
      [] x.k = "ninf" -> -1
      [] OTHER -> IF x.n > 0 THEN 1 ELSE IF x.n < 0 THEN -1 ELSE 0

\* a * b of the source (IEEE-754 special values; finite values exact)
NumMul(a, b) ==
    IF a.k = "nan" \/ b.k = "nan" THEN NaN
    ELSE IF IsFinite(a) /\ IsFinite(b)
         THEN LET g1 == Gcd(Abs(a.n), b.d)
                  g2 == Gcd(Abs(b.n), a.d)
              IN  Fin((a.n \div g1) * (b.n \div g2), (a.d \div g2) * (b.d \div g1))
         ELSE LET s == Sign(a) * Sign(b)
              IN  IF s = 0 THEN NaN ELSE IF s > 0 THEN PosInf ELSE NegInf

\* a + b of the source
NumAdd(a, b) ==
    IF a.k = "nan" \/ b.k = "nan" THEN NaN
    ELSE IF IsFinite(a) /\ IsFinite(b)
         THEN LET g == Gcd(a.d, b.d)
                  l == (a.d \div g) * b.d
              IN  Fin(a.n * (l \div a.d) + b.n * (l \div b.d), l)
         ELSE IF IsFinite(a) THEN b
         ELSE IF IsFinite(b) THEN a
         ELSE IF a.k = b.k THEN a ELSE NaN

(***************************************************************************)
(* createDefaultSSMConfig                                                  *)
(***************************************************************************)
DefaultConfig ==
    [stateSize |-> 2, inputSize |-> 1, outputSize |-> 1,
     A |-> << <<Fin(95, 100), Fin(5, 100)>>, <<Fin(5, 100), Fin(95, 100)>> >>,
     B |-> << <<Fin(1, 1)>>, <<Fin(1, 2)>> >>,
     C |-> << <<Fin(1, 1), Fin(1, 2)>> >>,
     D |-> << <<Fin(1, 10)>> >>]

(***************************************************************************)
(* StateSpaceModel: the private helpers                                    *)
(***************************************************************************)
\* row[k] as an operand: an element the row does not have is undefined,
\* which arithmetic reads as NaN
At(row, k) == IF k \in 1..Len(row) THEN row[k] ELSE NaN

\* matrixMultiply throws a TypeError: A[0] or B[0] is undefined, or B[k] is
\* for a column k of A
matrixMultiplyThrows(A, B) ==
    \/ Len(A) = 0
    \/ Len(B) = 0
    \/ Len(B[1]) > 0 /\ Len(A[1]) > Len(B)

\* the inner loop over k of matrixMultiply: result[i][j] += A[i][k] * B[k][j]
RECURSIVE DotLoop(_, _, _, _, _, _)
DotLoop(A, B, i, j, k, acc) ==
    IF k > Len(A[1]) THEN acc
    ELSE DotLoop(A, B, i, j, k + 1, NumAdd(acc, NumMul(At(A[i], k), At(B[k], j))))

\* result[i][j] = ... in place of result[i][j] += ...
matrixMultiplyNoAccumulate(A, B) ==
    [i \in 1..Len(A) |-> [j \in 1..Len(B[1]) |->
        NumMul(A[i][Len(A[1])], B[Len(A[1])][j])]]
matrixMultiply(A, B) ==
    [i \in 1..Len(A) |-> [j \in 1..Len(B[1]) |-> DotLoop(A, B, i, j, 1, Zero)]]

vectorToMatrix(v) == [i \in 1..Len(v) |-> <<v[i]>>]

matrixToVector(m) == [i \in 1..Len(m) |-> m[i][1]]

\* new Array(stateSize).fill(0)
ZeroState(config) == [i \in 1..config.stateSize |-> Zero]

(***************************************************************************)
(* JavaScript values.  Every value is a record tagged by t:                *)
(*   "undefined", "null", "bool" (b), "num" (v), "str" (c), "arr" (a: a    *)
(*   sequence of numbers), "obj" (f: the own properties in insertion       *)
(*   order, each [key, val]).                                              *)
(***************************************************************************)
Undefined == [t |-> "undefined"]
Null == [t |-> "null"]
Bool(b) == [t |-> "bool", b |-> b]
NumV(x) == [t |-> "num", v |-> x]
Str(c) == [t |-> "str", c |-> c]
Arr(v) == [t |-> "arr", a |-> v]
Obj(fields) == [t |-> "obj", f |-> fields]
Field(k, v) == [key |-> k, val |-> v]

Keys(o) == {o.f[i].key : i \in 1..Len(o.f)}
\* o[k]: the property's value, undefined when o has no such property
Get(o, k) ==
    IF k \in Keys(o)
    THEN (CHOOSE fld \in {o.f[i] : i \in 1..Len(o.f)} : fld.key = k).val
    ELSE Undefined
\* the rest of a destructuring: o without the properties in ks, order kept
RECURSIVE RestFields(_, _)
RestFields(fs, ks) ==
    IF fs = <<>> THEN <<>>
    ELSE IF Head(fs).key \in ks THEN RestFields(Tail(fs), ks)
         ELSE <<Head(fs)>> \o RestFields(Tail(fs), ks)

(***************************************************************************)
(* JSON.stringify.  The text is kept as the sequence of its members, each  *)
(* [key, json]; a number is written as itself when finite and as null      *)
(* when it is NaN or an infinity.                                          *)
(***************************************************************************)
NumToJSON(x) == IF IsFinite(x) THEN x ELSE JsonNull

ValueToJSON(v) ==
    CASE v.t = "arr" -> [arr |-> [i \in 1..Len(v.a) |-> NumToJSON(v.a[i])]]
      [] v.t = "num" -> [num |-> NumToJSON(v.v)]
      [] v.t = "str" -> [str |-> v.c]
      [] v.t = "bool" -> [bool |-> v.b]
      [] OTHER -> [null |-> TRUE]

JSONstringify(o) ==
    [i \in 1..Len(o.f) |-> [key |-> o.f[i].key, json |-> ValueToJSON(o.f[i].val)]]

(***************************************************************************)
(* crypto.  A SHA-256 digest is the text it was computed from; an Ed25519  *)
(* signature is its signer's key and the signed message.  A base64 string  *)
(* is the bytes it decodes to and its form: Node's decoder accepts a       *)
(* string whose trailing '=' padding is missing.                           *)
(***************************************************************************)
Sha256Hex(text) == Str([sha |-> text])

Ed25519Sign(privateKey, msg) == [signer |-> privateKey.id, msg |-> msg, whole |-> TRUE]

Ed25519Verify(publicKey, msg, bytes) ==
    /\ "signer" \in DOMAIN bytes
    /\ bytes.whole
    /\ bytes.signer = publicKey.id
    /\ bytes.msg = msg

Base64Encode(bytes) == Str([b64 |-> bytes, form |-> "padded"])

Base64Decode(s) == IF "b64" \in DOMAIN s.c THEN s.c.b64 ELSE [junk |-> TRUE]

\* one key pair shared by every instance
generateKeyPairShared(n) ==
    [publicKey |-> [pem |-> "PUBLIC KEY", id |-> 1],
     privateKey |-> [pem |-> "PRIVATE KEY", id |-> 1]]
\* generateKeyPair: every call of generateKeyPairSync yields a key pair of
\* its own; the n-th instance constructed holds key pair n
generateKeyPair(n) ==
    [publicKey |-> [pem |-> "PUBLIC KEY", id |-> n],
     privateKey |-> [pem |-> "PRIVATE KEY", id |-> n]]

hashState(data) == Sha256Hex(JSONstringify(data))

\* signData: createSign('SHA256') .update(data) .sign(privateKey, 'base64').
\* The streaming Sign class does not take an Ed25519 key on every runtime
\* (`streaming` says whether this one does); where it does not, sign() throws.
signData(keyPair_, streaming, data) ==
    IF streaming
    THEN [threw |-> FALSE, value |-> Base64Encode(Ed25519Sign(keyPair_.privateKey, data.c))]
    ELSE [threw |-> TRUE, value |-> Undefined]

(***************************************************************************)
(* StateSpaceModel.transition, as the function of the instance's fields,   *)
(* the argument and the clock that it is: whether it threw, the value it   *)
(* returned, and currentState as the call leaves it.                       *)
(***************************************************************************)
\* the guard of transition: input.length !== this.config.inputSize
inputSizeTooShort(config, input) == Len(input) < config.inputSize
inputSizeMismatch(config, input) == Len(input) # config.inputSize

\* the arithmetic of transition throws a TypeError, before the state is
\* assigned: in a product, or in Ax.map / Cx.map reading Bu[i][0] / Du[i][0]
\* of a row Bu / Du does not have
arithmeticThrows(config, state, input) ==
    \/ matrixMultiplyThrows(config.A, vectorToMatrix(state))
    \/ matrixMultiplyThrows(config.B, vectorToMatrix(input))
    \/ Len(config.B) < Len(config.A)
    \/ matrixMultiplyThrows(config.C, vectorToMatrix(state))
    \/ matrixMultiplyThrows(config.D, vectorToMatrix(input))
    \/ Len(config.D) < Len(config.C)

transition(config, state, keyPair_, streaming, input, clock) ==
    IF inputSizeMismatch(config, input)
    THEN [threw |-> TRUE, value |-> Undefined, state |-> state]
    ELSE IF arithmeticThrows(config, state, input)
    THEN [threw |-> TRUE, value |-> Undefined, state |-> state]
    ELSE
      LET prevState == state
          stateMatrix == vectorToMatrix(state)
          inputMatrix == vectorToMatrix(input)
          Ax == matrixMultiply(config.A, stateMatrix)
          Bu == matrixMultiply(config.B, inputMatrix)
          nextStateMatrix == [i \in 1..Len(Ax) |-> <<NumAdd(Ax[i][1], Bu[i][1])>>]
          nextState == matrixToVector(nextStateMatrix)
          Cx == matrixMultiply(config.C, stateMatrix)
          Du == matrixMultiply(config.D, inputMatrix)
          outputMatrix == [i \in 1..Len(Cx) |-> <<NumAdd(Cx[i][1], Du[i][1])>>]
          output == matrixToVector(outputMatrix)
          \* this.currentState = nextState happens here, before the proof is made
          timestamp == NumV(Fin(clock, 1))
          transitionData ==
              << Field("prevState", Arr(prevState)), Field("nextState", Arr(nextState)),
                 Field("input", Arr(input)), Field("output", Arr(output)),
                 Field("timestamp", timestamp) >>
          hash == hashState(Obj(transitionData))
          signature == signData(keyPair_, streaming, hash)
      IN  IF signature.threw
          THEN [threw |-> TRUE, value |-> Undefined, state |-> nextState]
          ELSE [threw |-> FALSE,
                value |-> Obj(transitionData \o
                              << Field("hash", hash), Field("signature", signature.value) >>),
                state |-> nextState]

(***************************************************************************)
(* StateSpaceModel.verifyTransition.  verifyTry is the body of the try     *)
(* block, verifyTransition the call with its catch.                        *)
(***************************************************************************)
\* const { hash, signature, ...data } = transition
verifyDataKeepsSignature(o) == Obj(RestFields(o.f, {"hash"}))
verifyData(o) == Obj(RestFields(o.f, {"hash", "signature"}))

verifyTry(keyPair_, streaming, arg) ==
    IF arg.t \in {"undefined", "null"}
    THEN \* destructuring undefined or null is a TypeError
         [threw |-> TRUE, value |-> Undefined]
    ELSE
      LET o == IF arg.t = "obj" THEN arg ELSE Obj(<<>>)
          hash == Get(o, "hash")
          signature == Get(o, "signature")
          data == verifyData(o)
          computedHash == hashState(data)
      IN  IF computedHash # hash
          THEN [threw |-> FALSE, value |-> Bool(FALSE)]
          ELSE IF ~streaming \/ signature.t # "str"
          THEN \* verify() rejects the key type, or a signature that is no string
               [threw |-> TRUE, value |-> Undefined]
          ELSE [threw |-> FALSE,
                value |-> Bool(Ed25519Verify(keyPair_.publicKey, hash.c,
                                             Base64Decode(signature)))]

\* verifyTransition without its try/catch
verifyTransitionNoCatch(keyPair_, streaming, arg) == verifyTry(keyPair_, streaming, arg)
verifyTransition(keyPair_, streaming, arg) ==
    LET r == verifyTry(keyPair_, streaming, arg)
    IN  IF r.threw THEN [threw |-> FALSE, value |-> Bool(FALSE)] ELSE r

\* StateSpaceModel.constructor: new Array(config.stateSize) throws a
\* RangeError for a negative length; nothing else of config is looked at
constructor(config, n) ==
    IF config.stateSize < 0
    THEN [threw |-> TRUE, value |-> Undefined]
    ELSE [threw |-> FALSE,
          value |-> [built |-> TRUE, config |-> config,
                     currentState |-> ZeroState(config),
                     keyPair |-> generateKeyPair(n), calls |-> 0]]

\* reset filling the state with ones
resetFillOne(config) == [i \in 1..config.stateSize |-> One]
\* StateSpaceModel.reset: new Array(stateSize).fill(0)
reset(config) == ZeroState(config)

(***************************************************************************)
(* State.                                                                  *)
(***************************************************************************)
VARIABLES
    streaming,      \* whether the runtime's Sign/Verify classes take an Ed25519 key
    currentState,   \* StateSpaceModel.currentState of each instance
    keyPair,        \* StateSpaceModel.keyPair of each instance
    now,            \* the wall clock, Date.now()
    hist,           \* per stand-alone instance: its transition and reset calls so far
    ret,            \* the last call: operation, instance, argument, outcome
    jobs,           \* table inference_jobs, in rowid order
    transitions,    \* table state_transitions, in rowid order
    auditLogs,      \* table audit_logs, in rowid order
    applied,        \* the calls that changed the server's model, in the order they took effect
    tasks,          \* the request handlers in flight: where each stands, what it holds
    running,        \* the handler that holds the JavaScript thread, 0 when none does
    heap,           \* the arrays of instance a and its caller, by reference
    stateRef,       \* the array that a's this.currentState refers to
    steps,          \* the steps each handler has taken
    inst,           \* an instance a caller constructs from a configuration of its own
    appended,       \* the texts logAuditEvent has hashed, with what they were made from
    licenseFile,    \* license.json in the user data directory
    licenseLog,     \* the calls made to the LicenseManager, with what they returned
    rng             \* the seeded generator infer() draws from

vars == <<streaming, currentState, keyPair, now, hist, ret, jobs, transitions, auditLogs,
          applied, tasks, running, heap, stateRef, steps, inst, appended,
          licenseFile, licenseLog, rng>>
dbVars == <<jobs, transitions, auditLogs>>
\* the handlers in flight and the arrays by reference
\* the state of what stands beside the server: the audit texts, the license
\* and the seeded generator
sideVars == <<appended, licenseFile, licenseLog, rng>>
auxVars == <<tasks, running, heap, stateRef, steps, inst, sideVars>>

\* the instance AxiomServer constructs, and two instances a caller constructs
ServerModel == "srv"
Lib == {"a", "b"}
Models == {ServerModel} \cup Lib
\* the order the instances are constructed in
InstanceNo(m) == CASE m = "srv" -> 1 [] m = "a" -> 2 [] m = "b" -> 3

\* every instance is built from createDefaultSSMConfig()
Config == DefaultConfig

\* no instance has been constructed from a configuration of the caller's
NotBuilt == [built |-> FALSE]
\* license.json does not exist
NoFile == [exists |-> FALSE]
\* createSeededRNG has not been called
Unseeded == [seeded |-> FALSE]
\* the configurations a caller passes to the constructor: the default one,
\* and the default one with
\*   A of 3 rows and B of 3 rows (stateSize is 2),
\*   A of 1 column,
\*   A of 3 columns,
\*   A with a second row of 1 element,
\*   D of 2 rows (outputSize is 1),
\*   stateSize -1
TallConfig ==
    [DefaultConfig EXCEPT !.A = Append(@, <<Zero, One>>), !.B = Append(@, <<One>>)]
NarrowConfig == [DefaultConfig EXCEPT !.A = << <<Fin(95, 100)>>, <<Fin(5, 100)>> >>]
WideConfig == [DefaultConfig EXCEPT !.A = [i \in 1..2 |-> Append(@[i], One)]]
RaggedConfig == [DefaultConfig EXCEPT !.A[2] = <<Fin(5, 100)>>]
LongDConfig == [DefaultConfig EXCEPT !.D = Append(@, <<One>>)]
NegativeConfig == [DefaultConfig EXCEPT !.stateSize = -1]
Configs == {DefaultConfig, TallConfig, NarrowConfig, WideConfig, RaggedConfig,
            LongDConfig, NegativeConfig}

getState(m) == currentState[m]
\* getPublicKey returning the other half of the pair
getPublicKeyOtherHalf(m) == keyPair[m].privateKey
getPublicKey(m) == keyPair[m].publicKey

\* a call that changes a model's state: transition(u) with u of the right
\* length, or reset()
TransitionCall(u) == [call |-> "transition", u |-> u]
ResetCall == [call |-> "reset"]

\* the handlers that may be in flight together
Tasks == 1..MaxTasks
\* a handler that has not been started
Idle == [pc |-> "idle"]
\* an array on the heap: its elements, and where the caller got it from
\* ("state" while only the model holds it)
Cell(v, from) == [a |-> v, from |-> from]

Call(op, m, arg, threw, value) ==
    [op |-> op, model |-> m, arg |-> arg, threw |-> threw, value |-> value]

\* the argument vectors a caller passes to transition(): two of the right
\* length, [1.0] and [NaN], and two of a wrong length, [] and [1.0, 1.0]
Inputs == { <<One>>, <<NaN>>, <<>>, <<One, One>> }

CallsMade == Len(hist["a"]) + Len(hist["b"])

\* the records transition() has returned on instance m
Issued(m) ==
    {hist[m][i].value : i \in {j \in 1..Len(hist[m]) :
                                  hist[m][j].op = "transition" /\ ~hist[m][j].threw}}

(***************************************************************************)
(* What a caller may hand to verifyTransition in place of a record R.      *)
(***************************************************************************)
SetField(o, k, v) ==
    Obj([i \in 1..Len(o.f) |-> IF o.f[i].key = k THEN Field(k, v) ELSE o.f[i]])
SetElem(o, k, i, x) ==
    SetField(o, k, Arr([Get(o, k).a EXCEPT ![i] = x]))
VectorFields == {"prevState", "nextState", "input", "output"}
\* the numbers other than x that x may be replaced by
OtherNums(x) ==
    ((IF IsFinite(x) THEN {NumAdd(x, One)} ELSE {}) \cup {NaN, PosInf, NegInf}) \ {x}
\* a hex digest other than h
OtherHashes(h) == {Sha256Hex(<<>>), Str([lit |-> "00ff"])} \ {h}

\* R with one element of one vector changed to another number
ElementChanged(R) ==
    {SetElem(R, k, i, x) : <<k, i, x>> \in
        UNION { UNION { {<<k, i, x>> : x \in OtherNums(Get(R, k).a[i])}
                        : i \in 1..Len(Get(R, k).a) } : k \in VectorFields }}
\* R with its timestamp changed to another time
TimestampChanged(R) ==
    {SetField(R, "timestamp", NumV(NumAdd(Get(R, "timestamp").v, One)))}
\* R with its hash changed to another digest
HashChanged(R) == {SetField(R, "hash", h) : h \in OtherHashes(Get(R, "hash"))}
\* C5's family: one field of R changed, the rest kept
TamperedOnce(R) == ElementChanged(R) \cup TimestampChanged(R) \cup HashChanged(R)

\* a key pair no instance holds (a caller's own)
OutsiderKey == generateKeyPair(0)
\* R's signature string and the bytes it encodes
SigBytes(R) == Base64Decode(Get(R, "signature"))
\* R with its signature re-encoded without the trailing '=' padding
SignatureUnpadded(R) ==
    SetField(R, "signature", Str([b64 |-> SigBytes(R), form |-> "unpadded"]))
\* R with a signature that is cut short, is no base64 at all, or was made
\* over the same hash with another key
SignatureBroken(R) ==
    { SetField(R, "signature", Str([b64 |-> [SigBytes(R) EXCEPT !.whole = FALSE],
                                     form |-> "padded"])),
      SetField(R, "signature", Str([lit |-> "@@garbage@@"])) }
    \cup { SetField(R, "signature", Base64Encode([SigBytes(R) EXCEPT !.signer = id]))
           : id \in ({OutsiderKey.privateKey.id} \cup {keyPair[m].privateKey.id : m \in Models})
                    \ {SigBytes(R).signer} }
\* R without one of its properties, or with one more
FieldMissing(R) == {Obj(RestFields(R.f, {k})) : k \in Keys(R)}
FieldAdded(R) == {Obj(R.f \o << Field("extra", NumV(One)) >>)}
\* R with a property of another type: a string for a vector or the timestamp,
\* a number for the hash or the signature, null for any of them
WrongType(R) ==
    {SetField(R, k, Str([lit |-> "text"])) : k \in VectorFields \cup {"timestamp"}}
    \cup {SetField(R, k, NumV(One)) : k \in {"hash", "signature"}}
    \cup {SetField(R, k, Null) : k \in Keys(R)}
\* values that are no record at all
NonRecords ==
    {Undefined, Null, NumV(One), Str([lit |-> "text"]), Bool(TRUE), Arr(<<>>), Obj(<<>>)}
\* the record instance a returned last, if it has returned one
LastIssued ==
    LET h == hist["a"]
        at == {i \in 1..Len(h) : h[i].value \in Issued("a")}
    IN  IF at = {} THEN {} ELSE {h[CHOOSE i \in at : \A j \in at : j <= i].value}
\* the arguments the calls of verifyTransition are drawn from: values that
\* are no record, and the last record as it is, changed in one field, or
\* malformed
VerifyArgs ==
    {Undefined, Null, Str([lit |-> "text"]), Obj(<<>>)} \cup
    UNION { {R} \cup TimestampChanged(R) \cup HashChanged(R) \cup FieldAdded(R)
            \cup SignatureBroken(R) \cup {SignatureUnpadded(R)}
            \cup {SetElem(R, "output", 1, x) : x \in OtherNums(Get(R, "output").a[1])}
            \cup {SetElem(R, "input", 1, JsonNull), Obj(RestFields(R.f, {"hash"}))}
            : R \in LastIssued }

Init ==
    /\ streaming \in BOOLEAN
    /\ currentState = [m \in Models |-> ZeroState(Config)]
    /\ keyPair = [m \in Models |-> generateKeyPair(InstanceNo(m))]
    /\ now = 0
    /\ hist = [m \in Lib |-> <<>>]
    /\ ret = Call("new", ServerModel, Undefined, FALSE, Undefined)
    /\ jobs = <<>>
    /\ transitions = <<>>
    /\ auditLogs = <<>>
    /\ applied = <<>>
    /\ tasks = [h \in Tasks |-> Idle]
    /\ running = 0
    /\ heap = << Cell(ZeroState(Config), "state") >>
    /\ stateRef = 1
    /\ steps = [h \in Tasks |-> 0]
    /\ inst = NotBuilt
    /\ appended = <<>>
    /\ licenseFile = NoFile
    /\ licenseLog = <<>>
    /\ rng = Unseeded

\* the clock moves on
Tick ==
    /\ now < MaxClock
    /\ now' = now + 1
    /\ UNCHANGED <<streaming, currentState, keyPair, hist, ret, dbVars, applied, auxVars>>

\* m.transition(u) with currentState a field shared by all instances
TransitionSharedState(m, u) ==
    /\ CallsMade < MaxCalls
    /\ LET r == transition(Config, currentState[m], keyPair[m], streaming, u, now)
       IN  /\ currentState' = [x \in Models |-> r.state]
           /\ ret' = Call("transition", m, Arr(u), r.threw, r.value)
           /\ hist' = IF Len(u) = Config.inputSize
                      THEN [hist EXCEPT ![m] = Append(@, ret')]
                      ELSE hist
    /\ UNCHANGED <<streaming, keyPair, now, dbVars, applied, auxVars>>
\* m.transition(u)
Transition(m, u) ==
    /\ CallsMade < MaxCalls
    /\ LET r == transition(Config, currentState[m], keyPair[m], streaming, u, now)
       IN  /\ currentState' = [currentState EXCEPT ![m] = r.state]
           /\ ret' = Call("transition", m, Arr(u), r.threw, r.value)
           /\ hist' = IF Len(u) = Config.inputSize
                      THEN [hist EXCEPT ![m] = Append(@, ret')]
                      ELSE hist
    /\ UNCHANGED <<streaming, keyPair, now, dbVars, applied, auxVars>>

\* m.reset() generating a new key pair
ResetRegeneratingKeys(m) ==
    /\ CallsMade < MaxCalls
    /\ currentState' = [currentState EXCEPT ![m] = reset(Config)]
    /\ keyPair' = [keyPair EXCEPT ![m] = generateKeyPair(InstanceNo(m) + Cardinality(Models))]
    /\ ret' = Call("reset", m, Undefined, FALSE, Undefined)
    /\ hist' = [hist EXCEPT ![m] = Append(@, ret')]
    /\ UNCHANGED <<streaming, now, dbVars, applied, auxVars>>
\* m.reset()
Reset(m) ==
    /\ CallsMade < MaxCalls
    /\ currentState' = [currentState EXCEPT ![m] = reset(Config)]
    /\ ret' = Call("reset", m, Undefined, FALSE, Undefined)
    /\ hist' = [hist EXCEPT ![m] = Append(@, ret')]
    /\ UNCHANGED <<streaming, keyPair, now, dbVars, applied, auxVars>>

\* instance b is fed the calls instance a was given, in the same order
Replay ==
    /\ Len(hist["b"]) < Len(hist["a"])
    /\ LET c == hist["a"][Len(hist["b"]) + 1]
       IN  IF c.op = "reset" THEN Reset("b") ELSE Transition("b", c.arg.a)

\* the operations that verify
VerifyOps == {"verify", "POST /api/verify"}
\* the requests that read
ReadOps == {"GET /api/audit", "GET /api/stats"}
\* the last call was one that changes nothing: a verification, a read, or a
\* request refused with 400.  Two such calls in a row are left out.
Quiet ==
    \/ ret.op \in VerifyOps \cup ReadOps
    \/ ret.value.t = "http" /\ ret.value.status = 400

\* m.verifyTransition(arg)
VerifyTransition(m, arg) ==
    /\ ~Quiet
    /\ LET r == verifyTransition(keyPair[m], streaming, arg)
       IN  ret' = Call("verify", m, arg, r.threw, r.value)
    /\ UNCHANGED <<streaming, currentState, keyPair, now, hist, dbVars, applied, auxVars>>

(***************************************************************************)
(* AxiomDatabase.  A table is the sequence of its rows in rowid order; no  *)
(* row is ever deleted, so AUTOINCREMENT gives row n the id n.             *)
(***************************************************************************)
createInferenceJob(rows, job) == Append(rows, [job EXCEPT !.id = Len(rows) + 1])

\* UPDATE that sets result, confidence and completed_at and leaves the status
updateInferenceJobStatusKept(rows, id, result, confidence, status, completed_at) ==
    [i \in 1..Len(rows) |->
        IF rows[i].id = id
        THEN [rows[i] EXCEPT !.result = result, !.confidence = confidence,
                             !.completed_at = completed_at]
        ELSE rows[i]]
\* UPDATE inference_jobs SET result, confidence, status, completed_at WHERE id
updateInferenceJob(rows, id, result, confidence, status, completed_at) ==
    [i \in 1..Len(rows) |->
        IF rows[i].id = id
        THEN [rows[i] EXCEPT !.result = result, !.confidence = confidence,
                             !.status = status, !.completed_at = completed_at]
        ELSE rows[i]]

\* the four vectors are stored as their JSON text
\* one row for each of the record's two state vectors
saveStateTransitionPerVector(rows, jobId, R) ==
    LET row == [id |-> Len(rows) + 1, job_id |-> jobId,
                prev_state |-> ValueToJSON(Get(R, "prevState")),
                next_state |-> ValueToJSON(Get(R, "nextState")),
                input |-> ValueToJSON(Get(R, "input")),
                output |-> ValueToJSON(Get(R, "output")),
                timestamp |-> Get(R, "timestamp"),
                hash |-> Get(R, "hash"),
                signature |-> Get(R, "signature"),
                verified |-> 1]
    IN  rows \o <<row, [row EXCEPT !.id = Len(rows) + 2]>>
saveStateTransition(rows, jobId, R) ==
    Append(rows,
        [id |-> Len(rows) + 1, job_id |-> jobId,
         prev_state |-> ValueToJSON(Get(R, "prevState")),
         next_state |-> ValueToJSON(Get(R, "nextState")),
         input |-> ValueToJSON(Get(R, "input")),
         output |-> ValueToJSON(Get(R, "output")),
         timestamp |-> Get(R, "timestamp"),
         hash |-> Get(R, "hash"),
         signature |-> Get(R, "signature"),
         verified |-> 1])

\* INSERT OR REPLACE that reuses the last id
createAuditLogReplacingLast(rows, log) ==
    IF rows = <<>> THEN <<[log EXCEPT !.id = 1]>>
    ELSE [rows EXCEPT ![Len(rows)] = [log EXCEPT !.id = Len(rows)]]
createAuditLog(rows, log) == Append(rows, [log EXCEPT !.id = Len(rows) + 1])

\* the rows at the indices in `left`, by created_at descending; rows of one
\* created_at in rowid order, ascending or descending
RECURSIVE RowsByCreatedDesc(_, _, _)
RowsByCreatedDesc(rows, left, tiesAscending) ==
    IF left = {} THEN <<>>
    ELSE LET newest == {j \in left : \A k \in left : rows[k].created_at <= rows[j].created_at}
             first == CHOOSE j \in newest :
                          \A k \in newest : IF tiesAscending THEN j <= k ELSE k <= j
         IN  <<rows[first]>> \o RowsByCreatedDesc(rows, left \ {first}, tiesAscending)
\* SELECT * FROM audit_logs ORDER BY created_at DESC LIMIT ?: the answers the
\* query may give
getAuditLogs(rows, limit) ==
    {SubSeq(sorted, 1, IF limit < Len(sorted) THEN limit ELSE Len(sorted)) :
        sorted \in {RowsByCreatedDesc(rows, 1..Len(rows), asc) : asc \in BOOLEAN}}

\* the three counts
getStats(jobRows, transitionRows) ==
    [totalJobs |-> Len(jobRows),
     completedJobs |-> Cardinality({i \in 1..Len(jobRows) : jobRows[i].status = "completed"}),
     totalTransitions |-> Len(transitionRows)]

\* the rows of greatest created_at
NewestRows(rows) ==
    {j \in 1..Len(rows) : \A k \in 1..Len(rows) : rows[k].created_at <= rows[j].created_at}
\* SELECT event_hash FROM audit_logs ORDER BY created_at DESC LIMIT 1: the
\* answers the query may give.  The statement fixes no order among rows that
\* share the greatest created_at; a scan meets them in rowid order, forwards
\* or backwards, so the first or the last of them inserted comes first.
getLastAuditLogHash(rows) ==
    IF rows = <<>> THEN {Null}
    ELSE LET newest == NewestRows(rows)
         IN  {rows[i].event_hash : i \in
                 {j \in newest : (\A k \in newest : j <= k) \/ (\A k \in newest : k <= j)}}

(***************************************************************************)
(* AxiomServer.                                                            *)
(***************************************************************************)
\* eventType + dataString + (prevHash || ''): a text is the sequence of the
\* pieces it was concatenated from, the empty string adding none
AuditHashInput(eventType, dataString, prevHash) ==
    << [piece |-> eventType] >> \o << [json |-> dataString.c] >>
    \o (IF prevHash = Null THEN <<>> ELSE << [hex |-> prevHash.c] >>)

\* logAuditEvent once getLastAuditLogHash has answered prevHash
logAuditEvent(rows, eventType, eventData, prevHash, clock) ==
    LET dataString == Str(JSONstringify(eventData))
        eventHash == Sha256Hex(AuditHashInput(eventType, dataString, prevHash))
    IN  createAuditLog(rows,
            [id |-> 0, event_type |-> eventType, event_data |-> dataString,
             event_hash |-> eventHash, prev_log_hash |-> prevHash,
             created_at |-> clock])

\* the prompts a client sends, and what is no prompt: none at all, a number,
\* the empty string
Prompts == {"hello", "status report"}
\* a prompt with the keyword 'analyze' (and none of the keywords the rules
\* look for before it)
AnalysisPrompts == {"analyze"}
PromptBodies == {Str([lit |-> p]) : p \in Prompts} \cup {Undefined, NumV(One), Str([lit |-> ""])}

\* hashToNumber / hashPromptToNumber: the first four bytes of the prompt's
\* SHA-256 over 2^32, a number in [0, 1) that the prompt fixes
hashToNumber(prompt) == IF prompt = "hello" THEN Fin(1, 2) ELSE Fin(1, 4)

\* generateSeed: the first four bytes of SHA-256(prompt + Date.now())
generateSeed(prompt, clock) == [t |-> "uint32", of |-> <<prompt, clock>>]

\* LocalInferenceEngine.infer, its rules: the confidence the prompt's
\* keywords select, and the text, which the prompt and the seed fix
inferConfidence(prompt) ==
    IF prompt = "hello" THEN Fin(95, 100)
    ELSE IF prompt \in AnalysisPrompts THEN Fin(80, 100)
    ELSE Fin(75, 100)

\* x.toFixed(3): the number rounded to thousandths, or the name of a
\* non-finite value
toFixed3(x) ==
    IF IsFinite(x)
    THEN [kind |-> "fin", milli |-> (2000 * x.n + x.d) \div (2 * x.d)]
    ELSE [kind |-> x.k, milli |-> 0]

\* the text infer() returns: the prompt and the seed fix it, except for
\* generateAnalysis, which also writes this.ssm.getState() into it
inferResult(prompt, seed, state) ==
    IF prompt \in AnalysisPrompts
    THEN Str([text |-> <<prompt, seed>>,
              stateVector |-> [i \in 1..Len(state) |-> toFixed3(state[i])]])
    ELSE Str([text |-> <<prompt, seed>>])

\* LocalInferenceEngine.infer: the result is made from the state as it is,
\* then the model makes a transition, and if that throws, so does infer
infer(config, state, keyPair_, streaming_, prompt, seed, clock) ==
    LET t == transition(config, state, keyPair_, streaming_, <<hashToNumber(prompt)>>, clock)
    IN  [threw |-> t.threw,
         value |-> IF t.threw THEN Undefined
                   ELSE Obj(<<Field("result", inferResult(prompt, seed, state)),
                              Field("confidence", NumV(inferConfidence(prompt))),
                              Field("seed", NumV(seed)),
                              Field("deterministic", Bool(TRUE))>>),
         state |-> t.state]

\* !v: the values JavaScript takes for false
Falsy(v) ==
    \/ v.t \in {"undefined", "null"}
    \/ v.t = "bool" /\ ~v.b
    \/ v.t = "num" /\ v.v \in {Zero, NaN}
    \/ v.t = "str" /\ v.c = [lit |-> ""]

Http(status, body) == [t |-> "http", status |-> status, body |-> body]

\* requests handled so far that wrote to the database
RequestsMade ==
    Len(jobs) + Cardinality({i \in 1..Len(auditLogs) : auditLogs[i].event_type = "system_reset"})

\* the clock is set back (the wall clock is not monotonic)
ClockBack ==
    /\ now > 0
    /\ now' \in 0..(now - 1)
    /\ UNCHANGED <<streaming, currentState, keyPair, hist, ret, dbVars, applied, auxVars>>

\* POST /api/inference with body {prompt}
ApiInference(prompt) ==
    IF Falsy(prompt) \/ prompt.t # "str"
    THEN /\ ~Quiet
         /\ ret' = Call("POST /api/inference", ServerModel, prompt, FALSE,
                        Http(400, Obj(<<Field("error", Str([lit |-> "Prompt is required"]))>>)))
         /\ UNCHANGED <<streaming, currentState, keyPair, now, hist, dbVars, applied, auxVars>>
    ELSE
      /\ RequestsMade < MaxRequests
      /\ LET p == prompt.c.lit
             seed == generateSeed(p, now)
             jobId == Len(jobs) + 1
             jobs1 == createInferenceJob(jobs,
                          [id |-> 0, prompt |-> prompt, result |-> Null, confidence |-> Null,
                           status |-> "processing", seed |-> seed,
                           created_at |-> NumV(Fin(now, 1)), completed_at |-> Null])
             started == Obj(<<Field("jobId", NumV(Fin(jobId, 1))), Field("prompt", prompt)>>)
             \* infer() makes a transition of its own before the handler's
             t1 == transition(Config, currentState[ServerModel], keyPair[ServerModel],
                              streaming, <<hashToNumber(p)>>, now)
             t2 == transition(Config, t1.state, keyPair[ServerModel],
                              streaming, <<hashToNumber(p)>>, now)
             confidence == inferConfidence(p)
             completed == Obj(<<Field("jobId", NumV(Fin(jobId, 1))),
                                Field("confidence", NumV(confidence))>>)
         IN  \E prev1 \in getLastAuditLogHash(auditLogs) :
               LET logs1 == logAuditEvent(auditLogs, "inference_started", started, prev1, now)
               IN  IF t1.threw \/ t2.threw
                   THEN \* caught by the handler: 500, and what was written stays
                        /\ currentState' = [currentState EXCEPT ![ServerModel] =
                                               IF t1.threw THEN t1.state ELSE t2.state]
                        /\ applied' = applied \o (IF t1.threw THEN <<TransitionCall(<<hashToNumber(p)>>)>>
                                                   ELSE <<TransitionCall(<<hashToNumber(p)>>),
                                                          TransitionCall(<<hashToNumber(p)>>)>>)
                        /\ jobs' = jobs1
                        /\ auditLogs' = logs1
                        /\ transitions' = transitions
                        /\ ret' = Call("POST /api/inference", ServerModel, prompt, FALSE,
                                       Http(500, Obj(<<Field("error", Str([lit |-> "error"]))>>)))
                   ELSE \E prev2 \in getLastAuditLogHash(logs1) :
                        /\ currentState' = [currentState EXCEPT ![ServerModel] = t2.state]
                        /\ applied' = applied \o <<TransitionCall(<<hashToNumber(p)>>),
                                                   TransitionCall(<<hashToNumber(p)>>)>>
                        /\ transitions' = saveStateTransition(transitions, jobId, t2.value)
                        /\ jobs' = updateInferenceJob(jobs1, jobId,
                                       inferResult(p, seed, currentState[ServerModel]),
                                       NumV(NumMul(confidence, Fin(100, 1))), "completed",
                                       NumV(Fin(now, 1)))
                        /\ auditLogs' = logAuditEvent(logs1, "inference_completed",
                                                      completed, prev2, now)
                        /\ ret' = Call("POST /api/inference", ServerModel, prompt, FALSE,
                                       Http(200, Obj(<<Field("jobId", NumV(Fin(jobId, 1))),
                                                       Field("result",
                                                             inferResult(p, seed, currentState[ServerModel])),
                                                       Field("confidence", NumV(confidence)),
                                                       Field("seed", NumV(seed)),
                                                       Field("deterministic", Bool(TRUE))>>)))
      /\ UNCHANGED <<streaming, keyPair, now, hist, auxVars>>

\* POST /api/reset that resets the model and writes no audit entry
ApiResetUnlogged ==
    /\ Len(applied) < 2 * MaxRequests
    /\ currentState' = [currentState EXCEPT ![ServerModel] = reset(Config)]
    /\ applied' = Append(applied, ResetCall)
    /\ ret' = Call("POST /api/reset", ServerModel, Undefined, FALSE,
                   Http(200, Obj(<<Field("success", Bool(TRUE)),
                                   Field("message", Str([lit |-> "System state reset"]))>>)))
    /\ UNCHANGED <<streaming, keyPair, now, hist, dbVars, auxVars>>
\* POST /api/reset
ApiReset ==
    /\ RequestsMade < MaxRequests
    /\ currentState' = [currentState EXCEPT ![ServerModel] = reset(Config)]
    /\ applied' = Append(applied, ResetCall)
    /\ \E prev \in getLastAuditLogHash(auditLogs) :
          auditLogs' = logAuditEvent(auditLogs, "system_reset", Obj(<<>>), prev, now)
    /\ ret' = Call("POST /api/reset", ServerModel, Undefined, FALSE,
                   Http(200, Obj(<<Field("success", Bool(TRUE)),
                                   Field("message", Str([lit |-> "System state reset"]))>>)))
    /\ UNCHANGED <<streaming, keyPair, now, hist, jobs, transitions, auxVars>>

\* the response of POST /api/verify with body {transition: arg}
verifyResponse(arg) ==
    IF Falsy(arg)
    THEN Http(400, Obj(<<Field("error", Str([lit |-> "Transition data required"]))>>))
    ELSE LET r == verifyTransition(keyPair[ServerModel], streaming, arg)
         IN  IF r.threw
             THEN Http(500, Obj(<<Field("error", Str([lit |-> "error"])),
                                  Field("valid", Bool(FALSE))>>))
             ELSE Http(200, Obj(<<Field("valid", r.value), Field("verified", r.value),
                                  Field("timestamp", NumV(Fin(now, 1)))>>))

\* POST /api/verify that also writes an audit entry, as the other POST handlers do
ApiVerifyLogged(arg) ==
    /\ ~Quiet
    /\ ret' = Call("POST /api/verify", ServerModel, arg, FALSE, verifyResponse(arg))
    /\ \E prev \in getLastAuditLogHash(auditLogs) :
          auditLogs' = logAuditEvent(auditLogs, "verification", Obj(<<>>), prev, now)
    /\ UNCHANGED <<streaming, currentState, keyPair, now, hist, jobs, transitions, applied, auxVars>>
\* POST /api/verify with body {transition: arg}
ApiVerify(arg) ==
    /\ ~Quiet
    /\ ret' = Call("POST /api/verify", ServerModel, arg, FALSE, verifyResponse(arg))
    /\ UNCHANGED <<streaming, currentState, keyPair, now, hist, dbVars, applied, auxVars>>

\* parseInt(req.query.limit) || 100, no limit being sent
DefaultLimit == 100

\* GET /api/audit
ApiAudit ==
    /\ ~Quiet
    /\ \E logs \in getAuditLogs(auditLogs, DefaultLimit) :
          ret' = Call("GET /api/audit", ServerModel, Undefined, FALSE,
                      [t |-> "http", status |-> 200, logs |-> logs])
    /\ UNCHANGED <<streaming, currentState, keyPair, now, hist, dbVars, applied, auxVars>>

\* GET /api/stats
ApiStats ==
    /\ ~Quiet
    /\ ret' = Call("GET /api/stats", ServerModel, Undefined, FALSE,
                   [t |-> "http", status |-> 200, stats |-> getStats(jobs, transitions),
                    systemState |-> getState(ServerModel),
                    publicKey |-> getPublicKey(ServerModel)])
    /\ UNCHANGED <<streaming, currentState, keyPair, now, hist, dbVars, applied, auxVars>>

\* the record a client puts together from a row of state_transitions
RecordOfRow(row) ==
    Obj(<< Field("prevState", Arr(row.prev_state.arr)), Field("nextState", Arr(row.next_state.arr)),
           Field("input", Arr(row.input.arr)), Field("output", Arr(row.output.arr)),
           Field("timestamp", row.timestamp), Field("hash", row.hash),
           Field("signature", row.signature) >>)
\* the records stored so far
Stored == {RecordOfRow(transitions[i]) : i \in 1..Len(transitions)}
\* the record stored last, if there is one
LastStored ==
    IF transitions = <<>> THEN {} ELSE {RecordOfRow(transitions[Len(transitions)])}
\* the bodies POST /api/verify is sent: no transition, one that is no record,
\* and the last stored record as it is, changed in one field, or malformed
ApiVerifyArgs ==
    {Undefined, NumV(Zero), Str([lit |-> "text"])} \cup
    UNION { {R} \cup TimestampChanged(R) \cup {SignatureUnpadded(R)}
            \cup {SetField(R, "signature", Str([lit |-> "@@garbage@@"])),
                  Obj(RestFields(R.f, {"signature"}))}
            : R \in LastStored }
\* what verifyTransition of the server's model is called with directly
DirectVerifyArgs == {Undefined} \cup LastStored

(***************************************************************************)
(* AuditChain.verifyChain.  The repository has no verifier of the audit    *)
(* chain; this one is written from the specification of the chain: the     *)
(* first entry's previous hash is the genesis value, every later entry's   *)
(* is its predecessor's hash, and every entry's hash is the hash of its    *)
(* type, its payload and its previous hash.                                *)
(***************************************************************************)
\* the fixed genesis value, the all-zero hash
Genesis == Str([lit |-> "0000000000000000000000000000000000000000000000000000000000000000"])

\* H(eventType || serialize(eventPayload) || previousEntryHash)
EntryHash(eventType, payload, previousEntryHash) ==
    Sha256Hex(<< [piece |-> eventType] >> \o << [json |-> payload.c] >>
              \o << [hex |-> previousEntryHash.c] >>)

verifyChain(entries) ==
    \A i \in 1..Len(entries) :
        /\ entries[i].prev_log_hash.t = "str"
        /\ IF i = 1 THEN entries[i].prev_log_hash = Genesis
           ELSE entries[i].prev_log_hash = entries[i - 1].event_hash
        /\ entries[i].event_hash =
             EntryHash(entries[i].event_type, entries[i].event_data, entries[i].prev_log_hash)

(***************************************************************************)
(* The request handlers step by step.  JavaScript runs one handler at a    *)
(* time until it returns or awaits: `running` is the handler that holds    *)
(* the thread.  logAuditEvent is taken in two steps (the tail is read, the *)
(* entry is inserted) and so is transition (the state is read, the next    *)
(* state is written); better-sqlite3 is synchronous and neither function   *)
(* awaits.  The one await of the server is in POST /api/inference, on      *)
(* inferenceEngine.infer().                                                *)
(***************************************************************************)
\* handler h may take a step at any time, as a thread of its own would
RunnableAnytime(h) == TRUE
\* handler h may take a step: no other handler holds the thread
Runnable(h) == running \in {0, h}

\* where a handler stands between the two steps of logAuditEvent, and between
\* the two steps of transition
InsertPcs == {"started_insert", "completed_insert", "reset_insert"}
WritePcs == {"infer_write", "handler_write"}

Task(pc, kind, prompt, jobId, tail, readLen, prev) ==
    [pc |-> pc, kind |-> kind, prompt |-> prompt, jobId |-> jobId,
     tail |-> tail, readLen |-> readLen, prev |-> prev, result |-> Undefined]
Done == [pc |-> "done"]

\* the handler has answered
Respond(h, op, arg, response) ==
    /\ ret' = Call(op, ServerModel, arg, FALSE, response)
    /\ running' = 0

\* POST /api/inference up to logAuditEvent's read of the tail, were the read
\* awaited (an asynchronous database driver)
InferenceBeginAwaitingTail(h, p) ==
    /\ tasks[h].pc = "idle"
    /\ Runnable(h)
    /\ steps' = [steps EXCEPT ![h] = @ + 1]
    /\ jobs' = createInferenceJob(jobs,
                  [id |-> 0, prompt |-> Str([lit |-> p]), result |-> Null, confidence |-> Null,
                   status |-> "processing", seed |-> generateSeed(p, now),
                   created_at |-> NumV(Fin(now, 1)), completed_at |-> Null])
    /\ \E tail \in getLastAuditLogHash(auditLogs) :
          tasks' = [tasks EXCEPT ![h] =
                       Task("started_insert", "inference", p, Len(jobs) + 1, tail,
                            Len(auditLogs), <<>>)]
    /\ running' = 0
    /\ UNCHANGED <<streaming, currentState, keyPair, now, hist, inst, sideVars, ret, transitions,
                   auditLogs,
                   applied, heap, stateRef>>
\* POST /api/inference with a prompt, up to logAuditEvent's read of the tail:
\* the seed, the job row, getLastAuditLogHash()
InferenceBegin(h, p) ==
    /\ tasks[h].pc = "idle"
    /\ Runnable(h)
    /\ steps' = [steps EXCEPT ![h] = @ + 1]
    /\ jobs' = createInferenceJob(jobs,
                  [id |-> 0, prompt |-> Str([lit |-> p]), result |-> Null, confidence |-> Null,
                   status |-> "processing", seed |-> generateSeed(p, now),
                   created_at |-> NumV(Fin(now, 1)), completed_at |-> Null])
    /\ \E tail \in getLastAuditLogHash(auditLogs) :
          tasks' = [tasks EXCEPT ![h] =
                       Task("started_insert", "inference", p, Len(jobs) + 1, tail,
                            Len(auditLogs), <<>>)]
    /\ running' = h
    /\ UNCHANGED <<streaming, currentState, keyPair, now, hist, inst, sideVars, ret, transitions,
                   auditLogs,
                   applied, heap, stateRef>>

\* POST /api/reset up to logAuditEvent's read of the tail
ResetBegin(h) ==
    /\ tasks[h].pc = "idle"
    /\ Runnable(h)
    /\ steps' = [steps EXCEPT ![h] = @ + 1]
    /\ currentState' = [currentState EXCEPT ![ServerModel] = reset(Config)]
    /\ applied' = Append(applied, ResetCall)
    /\ \E tail \in getLastAuditLogHash(auditLogs) :
          tasks' = [tasks EXCEPT ![h] =
                       Task("reset_insert", "reset", "", 0, tail, Len(auditLogs), <<>>)]
    /\ running' = h
    /\ UNCHANGED <<streaming, keyPair, now, hist, inst, sideVars, ret, dbVars, heap, stateRef>>

\* logAuditEvent from the hash on: the entry is inserted with the tail read
LogInsert(h) ==
    /\ tasks[h].pc \in InsertPcs
    /\ Runnable(h)
    /\ steps' = [steps EXCEPT ![h] = @ + 1]
    /\ LET t == tasks[h]
           jobId == NumV(Fin(t.jobId, 1))
       IN  CASE t.pc = "started_insert" ->
                  /\ auditLogs' = logAuditEvent(auditLogs, "inference_started",
                                     Obj(<<Field("jobId", jobId),
                                           Field("prompt", Str([lit |-> t.prompt]))>>),
                                     t.tail, now)
                  /\ tasks' = [tasks EXCEPT ![h].pc = "infer_read"]
                  /\ running' = h
                  /\ ret' = ret
             [] t.pc = "completed_insert" ->
                  /\ auditLogs' = logAuditEvent(auditLogs, "inference_completed",
                                     Obj(<<Field("jobId", jobId),
                                           Field("confidence", NumV(inferConfidence(t.prompt)))>>),
                                     t.tail, now)
                  /\ tasks' = [tasks EXCEPT ![h] = Done]
                  /\ Respond(h, "POST /api/inference", Str([lit |-> t.prompt]),
                             Http(200, Obj(<<Field("jobId", jobId),
                                             Field("deterministic", Bool(TRUE))>>)))
             [] t.pc = "reset_insert" ->
                  /\ auditLogs' = logAuditEvent(auditLogs, "system_reset", Obj(<<>>), t.tail, now)
                  /\ tasks' = [tasks EXCEPT ![h] = Done]
                  /\ Respond(h, "POST /api/reset", Undefined,
                             Http(200, Obj(<<Field("success", Bool(TRUE))>>)))
    /\ UNCHANGED <<streaming, currentState, keyPair, now, hist, inst, sideVars, jobs, transitions,
                   applied, heap, stateRef>>

\* transition up to its reads of this.currentState: in infer(), and in the
\* handler once the await has returned
TransitionRead(h) ==
    /\ tasks[h].pc \in {"infer_read", "handler_read"}
    /\ Runnable(h)
    /\ steps' = [steps EXCEPT ![h] = @ + 1]
    /\ tasks' = [tasks EXCEPT ![h].prev = currentState[ServerModel],
                              ![h].pc = IF @ = "infer_read" THEN "infer_write"
                                        ELSE "handler_write"]
    /\ running' = h
    /\ UNCHANGED <<streaming, currentState, keyPair, now, hist, inst, sideVars, ret, dbVars, applied,
                   heap, stateRef>>

\* transition from this.currentState = nextState on, and the handler up to
\* its next await or its next read of the tail
TransitionWrite(h) ==
    /\ tasks[h].pc \in WritePcs
    /\ Runnable(h)
    /\ steps' = [steps EXCEPT ![h] = @ + 1]
    /\ LET t == tasks[h]
           u == <<hashToNumber(t.prompt)>>
           r == transition(Config, t.prev, keyPair[ServerModel], streaming, u, now)
       IN  /\ currentState' = [currentState EXCEPT ![ServerModel] = r.state]
           /\ applied' = Append(applied, TransitionCall(u))
           /\ IF r.threw
              THEN \* signData threw: the handler's catch answers 500
                   /\ tasks' = [tasks EXCEPT ![h] = Done]
                   /\ Respond(h, "POST /api/inference", Str([lit |-> t.prompt]),
                              Http(500, Obj(<<Field("error", Str([lit |-> "error"]))>>)))
                   /\ UNCHANGED dbVars
              ELSE IF t.pc = "infer_write"
              THEN \* infer() returns its promise and the handler awaits it
                   /\ tasks' = [tasks EXCEPT ![h].pc = "handler_read",
                                              ![h].result =
                                                  inferResult(t.prompt,
                                                              generateSeed(t.prompt, now),
                                                              t.prev)]
                   /\ running' = 0
                   /\ UNCHANGED <<ret, dbVars>>
              ELSE /\ transitions' = saveStateTransition(transitions, t.jobId, r.value)
                   /\ jobs' = updateInferenceJob(jobs, t.jobId, t.result,
                                 NumV(NumMul(inferConfidence(t.prompt), Fin(100, 1))),
                                 "completed", NumV(Fin(now, 1)))
                   /\ \E tail \in getLastAuditLogHash(auditLogs) :
                         tasks' = [tasks EXCEPT ![h].pc = "completed_insert",
                                                ![h].tail = tail,
                                                ![h].readLen = Len(auditLogs)]
                   /\ running' = h
                   /\ UNCHANGED <<ret, auditLogs>>
    /\ UNCHANGED <<streaming, keyPair, now, hist, inst, sideVars, heap, stateRef>>

NextConc ==
    \/ \E h \in Tasks : \E p \in Prompts : InferenceBegin(h, p)
    \/ \E h \in Tasks : ResetBegin(h)
    \/ \E h \in Tasks : LogInsert(h)
    \/ \E h \in Tasks : TransitionRead(h)
    \/ \E h \in Tasks : TransitionWrite(h)

\* the server with several requests in flight
SpecConc == Init /\ [][NextConc]_vars

(***************************************************************************)
(* Instance a with its arrays by reference.  A JavaScript array is an      *)
(* object: `heap` holds the arrays, a reference is an index into it, and   *)
(* stateRef is the array this.currentState refers to.  An array's `from`   *)
(* says how the caller came to hold it ("state": the caller does not).     *)
(* currentState["a"] stays the value of the array this.currentState        *)
(* refers to, which is what getState() and transition() read.              *)
(***************************************************************************)
\* getState returning this.currentState itself
getStateByRefLive(h, sr) ==
    [heap |-> [h EXCEPT ![sr].from = "getState"], ref |-> sr]
\* getState: return [...this.currentState], a new array
getStateByRef(h, sr) ==
    [heap |-> Append(h, Cell(h[sr].a, "getState")), ref |-> Len(h) + 1]

\* transition: the arrays the call creates and what refers to them
\* afterwards.  prevState = [...this.currentState] is a new array, nextState
\* and output are new arrays, input is the caller's own; this.currentState =
\* nextState makes the model refer to the very array the record holds.
transitionByRef(h, sr, r, u) ==
    IF inputSizeMismatch(Config, u)
    THEN \* thrown before anything was created
         [heap |-> h, stateRef |-> sr, refs |-> <<>>]
    ELSE IF r.threw
    THEN \* thrown while signing: the state was advanced and nothing was
         \* returned, the model alone holds the new array
         [heap |-> Append(h, Cell(r.state, "state")), stateRef |-> Len(h) + 1,
          refs |-> <<>>]
    ELSE [heap |-> h \o << Cell(Get(r.value, "prevState").a, "prevState"),
                           Cell(Get(r.value, "nextState").a, "nextState"),
                           Cell(u, "input"),
                           Cell(Get(r.value, "output").a, "output") >>,
          stateRef |-> Len(h) + 2,
          refs |-> << Len(h) + 1, Len(h) + 2, Len(h) + 3, Len(h) + 4 >>]

\* the value the mutating caller writes
Seven == Fin(7, 1)

\* a.getState()
GetStateByRef ==
    /\ Len(heap) < MaxHeap
    /\ LET g == getStateByRef(heap, stateRef)
       IN  /\ heap' = g.heap
           /\ ret' = Call("getState", "a", Undefined, FALSE, [refs |-> <<g.ref>>])
    /\ UNCHANGED <<streaming, currentState, keyPair, now, hist, inst, sideVars, dbVars, applied,
                   tasks, running, steps, stateRef>>

\* a.transition(u)
TransitionByRef(u) ==
    /\ Len(heap) + 4 <= MaxHeap
    /\ LET r == transition(Config, heap[stateRef].a, keyPair["a"], streaming, u, now)
           t == transitionByRef(heap, stateRef, r, u)
       IN  /\ heap' = t.heap
           /\ stateRef' = t.stateRef
           /\ currentState' = [currentState EXCEPT !["a"] = t.heap[t.stateRef].a]
           /\ ret' = Call("transition", "a", Arr(u), r.threw, [refs |-> t.refs])
    /\ UNCHANGED <<streaming, keyPair, now, hist, inst, sideVars, dbVars, applied,
                   tasks, running, steps>>

\* a.reset(): this.currentState = new Array(stateSize).fill(0)
ResetByRef ==
    /\ Len(heap) < MaxHeap
    /\ heap' = Append(heap, Cell(reset(Config), "state"))
    /\ stateRef' = Len(heap) + 1
    /\ currentState' = [currentState EXCEPT !["a"] = reset(Config)]
    /\ ret' = Call("reset", "a", Undefined, FALSE, [refs |-> <<>>])
    /\ UNCHANGED <<streaming, keyPair, now, hist, inst, sideVars, dbVars, applied,
                   tasks, running, steps>>

\* the caller writes into an array the last call returned: arr[i] = 7
Mutate(ref, i) ==
    /\ ret.op \in {"getState", "transition"}
    /\ ret.model = "a"
    /\ "refs" \in DOMAIN ret.value
    /\ ref \in {ret.value.refs[k] : k \in 1..Len(ret.value.refs)}
    /\ i \in 1..Len(heap[ref].a)
    /\ heap' = [heap EXCEPT ![ref].a[i] = Seven]
    /\ currentState' = [currentState EXCEPT !["a"] = heap'[stateRef].a]
    /\ ret' = Call("mutate", "a", [ref |-> ref, i |-> i], FALSE, [refs |-> <<>>])
    /\ UNCHANGED <<streaming, keyPair, now, hist, inst, sideVars, dbVars, applied, tasks, running,
                   steps, stateRef>>

NextAlias ==
    \/ GetStateByRef
    \/ \E u \in Inputs : TransitionByRef(u)
    \/ ResetByRef
    \/ \E ref \in 1..Len(heap) : \E i \in 1..Config.stateSize : Mutate(ref, i)

\* instance a and a caller that writes into the arrays it is handed
SpecAlias == Init /\ [][NextAlias]_vars

(***************************************************************************)
(* An instance constructed from a configuration the caller wrote.          *)
(***************************************************************************)
\* new StateSpaceModel(config)
Construct(config) ==
    /\ inst = NotBuilt
    /\ LET r == constructor(config, 4)
       IN  /\ inst' = IF r.threw THEN NotBuilt ELSE r.value
           /\ ret' = Call("new", "c", config, r.threw, Undefined)
    /\ UNCHANGED <<streaming, currentState, keyPair, now, hist, dbVars, applied,
                   tasks, running, steps, heap, stateRef, sideVars>>

\* inst.transition(u)
TransitionOfInst(u) ==
    /\ inst # NotBuilt
    /\ inst.calls < MaxCalls
    /\ LET r == transition(inst.config, inst.currentState, inst.keyPair, streaming, u, now)
       IN  /\ inst' = [inst EXCEPT !.currentState = r.state, !.calls = @ + 1]
           /\ ret' = Call("transition", "c", Arr(u), r.threw, r.value)
    /\ UNCHANGED <<streaming, currentState, keyPair, now, hist, dbVars, applied,
                   tasks, running, steps, heap, stateRef, sideVars>>

\* inst.reset()
ResetOfInst ==
    /\ inst # NotBuilt
    /\ inst.calls < MaxCalls
    /\ inst' = [inst EXCEPT !.currentState = reset(inst.config), !.calls = @ + 1]
    /\ ret' = Call("reset", "c", Undefined, FALSE, Undefined)
    /\ UNCHANGED <<streaming, currentState, keyPair, now, hist, dbVars, applied,
                   tasks, running, steps, heap, stateRef, sideVars>>

NextConfig ==
    \/ \E config \in Configs : Construct(config)
    \/ \E u \in Inputs : TransitionOfInst(u)
    \/ ResetOfInst

\* a caller that writes its own configuration
SpecConfig == Init /\ [][NextConfig]_vars

(***************************************************************************)
(* LocalInferenceEngine over instance a.                                   *)
(***************************************************************************)
\* the seeds a caller passes to infer()
Seeds == {One, Fin(2, 1)}

\* engine.infer({prompt, seed})
Infer(prompt, seed) ==
    /\ CallsMade < MaxCalls
    /\ LET r == infer(Config, currentState["a"], keyPair["a"], streaming, prompt, seed, now)
       IN  /\ currentState' = [currentState EXCEPT !["a"] = r.state]
           /\ ret' = Call("infer", "a", [prompt |-> prompt, seed |-> seed], r.threw, r.value)
           /\ hist' = [hist EXCEPT !["a"] = Append(@, ret')]
    /\ UNCHANGED <<streaming, keyPair, now, dbVars, applied, auxVars>>

\* a handler that has been started runs on: the event loop resumes it after
\* its await, and nothing it waits for can stay away
Pending(h) == tasks[h].pc \notin {"idle", "done"}
\* a step of handler h: h is under way and may run, and the step is h's.
\* Every step of LogInsert, TransitionRead and TransitionWrite of h is one,
\* and one of them can be taken whenever h is under way and may run.
HandlerStep(h) == Pending(h) /\ Runnable(h) /\ steps' = [steps EXCEPT ![h] = @ + 1]
SpecConcFair == SpecConc /\ \A h \in Tasks : WF_steps(HandlerStep(h))

NextInfer ==
    \/ Tick
    \/ \E prompt \in {"hello"} \cup AnalysisPrompts : \E seed \in Seeds : Infer(prompt, seed)
    \/ \E u \in Inputs : Transition("a", u)
    \/ Reset("a")

\* the inference engine and its model, called directly
SpecInfer == Init /\ [][NextInfer]_vars

NextLib ==
    \/ Tick
    \/ \E u \in Inputs : Transition("a", u)
    \/ Reset("a")
    \/ Replay
    \/ \E arg \in VerifyArgs : VerifyTransition("a", arg)
    \/ \E arg \in LastIssued : VerifyTransition("b", arg)

\* the stand-alone instances and their callers
Spec == Init /\ [][NextLib]_vars

NextServer ==
    \/ Tick
    \/ \E prompt \in PromptBodies : ApiInference(prompt)
    \/ ApiReset
    \/ \E arg \in ApiVerifyArgs : ApiVerify(arg)
    \/ \E arg \in DirectVerifyArgs : VerifyTransition(ServerModel, arg)
    \/ ApiAudit
    \/ ApiStats

\* the server and its clients
SpecServer == Init /\ [][NextServer]_vars

NextSkew ==
    \/ NextServer
    \/ ClockBack

\* the server and its clients on a machine whose clock may be set back
SpecSkew == Init /\ [][NextSkew]_vars

(***************************************************************************)
(* The linear recurrence, written from its equations and not from the      *)
(* code: x(t+1) = A x(t) + B u(t), y(t) = C x(t) + D u(t).                  *)
(***************************************************************************)
RECURSIVE Dot(_, _)
Dot(row, v) ==
    IF row = <<>> THEN Zero
    ELSE NumAdd(NumMul(Head(row), Head(v)), Dot(Tail(row), Tail(v)))
MatVec(M, v) == [i \in 1..Len(M) |-> Dot(M[i], v)]
VecAdd(v, w) == [i \in 1..Len(v) |-> NumAdd(v[i], w[i])]
NextStateOf(x, u) == VecAdd(MatVec(Config.A, x), MatVec(Config.B, u))
OutputOf(x, u) == VecAdd(MatVec(Config.C, x), MatVec(Config.D, u))

\* a step in which transition() was called with a vector of the right length
IsTransitionStep ==
    /\ hist' # hist
    /\ ret'.op = "transition"
\* the vectors of the claims' scenario
Vec2(n1, d1, n2, d2) == <<Fin(n1, d1), Fin(n2, d2)>>
Vec1(n, d) == <<Fin(n, d)>>

C2_WrongLengthRejected ==
    [][ (ret'.op = "transition" /\ Len(ret'.arg.a) # Config.inputSize /\ now' = now)
        => (ret'.threw /\ currentState' = currentState) ]_vars

\* a call with a vector of a wrong length has thrown on an instance whose
\* state is no longer the zero state
C2_Witness ==
    /\ ret.op = "transition" /\ ret.threw
    /\ Len(ret.arg.a) # Config.inputSize
    /\ getState(ret.model) # ZeroState(Config)

\* what C3 compares of a call: everything but timestamp, hash and signature
Outcome(c) ==
    [op |-> c.op, threw |-> c.threw,
     prevState |-> IF c.value.t = "obj" THEN Get(c.value, "prevState") ELSE Undefined,
     nextState |-> IF c.value.t = "obj" THEN Get(c.value, "nextState") ELSE Undefined,
     output |-> IF c.value.t = "obj" THEN Get(c.value, "output") ELSE Undefined]

C4_OwnRecordVerifies ==
    \A m \in Lib : \A R \in Issued(m) :
        verifyTransition(keyPair[m], streaming, R) = [threw |-> FALSE, value |-> Bool(TRUE)]

\* an instance has verified a record of its own, after moving on from it
C4_Witness ==
    /\ ret.op = "verify" /\ ret.arg \in Issued(ret.model)
    /\ ret.value = Bool(TRUE)
    /\ Len(hist[ret.model]) >= 2

\* C5: a record returned by transition with one field changed (an element of
\* prevState, nextState, input or output, the timestamp, or the hash) is
\* rejected by verifyTransition.
C5_TamperRejected ==
    \A m \in Lib : \A R \in Issued(m) : \A T \in TamperedOnce(R) :
        verifyTransition(keyPair[m], streaming, T).value = Bool(FALSE)

\* C6: a record one instance returned is rejected by verifyTransition of every
\* other instance.
C6_ForeignKeyRejects ==
    \A m \in Lib : \A R \in Issued(m) : \A other \in Models \ {m} :
        verifyTransition(keyPair[other], streaming, R) = [threw |-> FALSE, value |-> Bool(FALSE)]

\* instance b has rejected a record that instance a returned and accepts
C6_Witness ==
    /\ ret.op = "verify" /\ ret.model = "b" /\ ret.arg \in Issued("a")
    /\ ret.value = Bool(FALSE)
    /\ verifyTransition(keyPair["a"], streaming, ret.arg).value = Bool(TRUE)

\* C7's family: what verifyTransition may be handed in place of a record R
\* that is malformed: a property missing, a property added, a property of
\* another type, no object at all, a signature cut short, garbage, or made
\* with another key
Invalid(R) ==
    FieldMissing(R) \cup FieldAdded(R) \cup WrongType(R) \cup SignatureBroken(R)
    \cup NonRecords

IsVerifyStep == ret' # ret /\ ret'.op \in VerifyOps

\* C8: a call of verifyTransition, and a POST /api/verify request, whatever
\* its argument and its result, leaves the model's state, the key pair, the
\* stored jobs and transitions and the audit log as they were.
C8_VerifyNoSideEffects ==
    [][ IsVerifyStep =>
        UNCHANGED <<currentState, keyPair, jobs, transitions, auditLogs>> ]_vars

\* POST /api/verify has accepted a stored record while jobs, transitions and
\* audit entries are stored and the model has left the zero state
C8_Witness ==
    /\ ret.op = "POST /api/verify"
    /\ ret.arg \in Stored
    /\ Get(ret.value.body, "valid") = Bool(TRUE)
    /\ jobs # <<>> /\ transitions # <<>> /\ auditLogs # <<>>
    /\ getState(ServerModel) # ZeroState(Config)

\* C9: every audit entry but the first has prev_log_hash equal to the
\* event_hash of the entry inserted immediately before it, also when entries
\* fall in the same millisecond or the clock has stepped backwards.
C9_ChainLinked ==
    \A i \in 2..Len(auditLogs) :
        auditLogs[i].prev_log_hash = auditLogs[i - 1].event_hash

\* C10: the first entry of the audit chain has a previous-entry hash that is
\* a defined genesis value, never null or absent, and its own hash is
\* computed over that value.
C10_GenesisSentinel ==
    auditLogs # <<>> =>
        LET first == auditLogs[1]
        IN  /\ first.prev_log_hash \notin {Null, Undefined}
            /\ first.event_hash =
                 Sha256Hex(<< [piece |-> first.event_type] >>
                           \o << [json |-> first.event_data.c] >>
                           \o << [hex |-> first.prev_log_hash.c] >>)

\* the state the model is in after the calls cs, made one after the other
\* from the zero state
RECURSIVE StateAfter(_)
StateAfter(cs) ==
    IF cs = <<>> THEN ZeroState(Config)
    ELSE LET c == cs[Len(cs)]
         IN  IF c.call = "reset" THEN ZeroState(Config)
             ELSE NextStateOf(StateAfter(SubSeq(cs, 1, Len(cs) - 1)), c.u)

\* C11: in every interleaving of the request handlers, no entry is inserted
\* into the audit log between an append's read of the tail hash and its own
\* insertion.
C11_AppendExclusive ==
    \A h \in Tasks :
        tasks[h].pc \in InsertPcs => tasks[h].readLen = Len(auditLogs)

\* a handler is about to insert its entry while another handler, which has
\* appended already, waits at its await
C11_Witness ==
    \E h, g \in Tasks :
        /\ h # g
        /\ tasks[h].pc \in InsertPcs
        /\ tasks[g].pc = "handler_read"
        /\ auditLogs # <<>>

\* C12: in every interleaving of the request handlers, no transition or reset
\* takes effect between a transition's read of the state and its write of the
\* next state, and the model's state is the state after the calls made one
\* after the other in the order they took effect.
C12_TransitionExclusive ==
    /\ \A h \in Tasks :
          tasks[h].pc \in WritePcs => tasks[h].prev = currentState[ServerModel]
    /\ currentState[ServerModel] = StateAfter(applied)

\* a handler is between the read and the write of its transition while
\* another handler waits at its await, the model having left the zero state
C12_Witness ==
    \E h, g \in Tasks :
        /\ h # g
        /\ tasks[h].pc \in WritePcs
        /\ tasks[g].pc = "handler_read"
        /\ currentState[ServerModel] # ZeroState(Config)

\* what may be done to a chain of entries: one entry's payload altered, two
\* entries swapped, one entry deleted, one entry inserted (made as a genuine
\* append at that place would make it)
PayloadAltered(es) ==
    {[es EXCEPT ![i].event_data = Str(<<[key |-> "altered", json |-> [bool |-> TRUE]]>>)]
        : i \in 1..Len(es)}
Swapped(es) ==
    {[es EXCEPT ![i] = es[j], ![j] = es[i]] : <<i, j>> \in
        {ij \in (1..Len(es)) \X (1..Len(es)) : ij[1] < ij[2]}}
Deleted(es) ==
    {SubSeq(es, 1, i - 1) \o SubSeq(es, i + 1, Len(es)) : i \in 1..Len(es)}
Forged(prev) ==
    [id |-> 0, event_type |-> "forged", event_data |-> Str(<<>>),
     event_hash |-> EntryHash("forged", Str(<<>>), prev),
     prev_log_hash |-> prev, created_at |-> 0]
Inserted(es) ==
    {SubSeq(es, 1, i) \o << Forged(IF i = 0 THEN Genesis ELSE es[i].event_hash) >>
        \o SubSeq(es, i + 1, Len(es)) : i \in 0..Len(es)}
TamperedChains(es) == PayloadAltered(es) \cup Swapped(es) \cup Deleted(es) \cup Inserted(es)

\* C13: verifyChain returns true for the audit log as the appends left it, in
\* insertion order: the first entry's previous hash is the genesis value,
\* every later entry's is its predecessor's event hash, and every event hash
\* is the hash recomputed from the entry's own fields.
C13_UntouchedChainVerifies ==
    auditLogs # <<>> => verifyChain(auditLogs)

C15_AppendOnly ==
    [][ /\ Len(auditLogs) <= Len(auditLogs')
        /\ SubSeq(auditLogs', 1, Len(auditLogs)) = auditLogs ]_vars

\* the log has been read after three appends or more
C15_Witness ==
    /\ ret.op = "GET /api/audit"
    /\ Len(ret.value.logs) >= 3
    /\ Len(auditLogs) >= 3

\* whether an audit entry's payload carries the text h
Carries(entry, h) ==
    \E i \in 1..Len(entry.event_data.c) : entry.event_data.c[i].json = [str |-> h.c]

\* C16: for every transition that was hashed, signed and stored, the audit
\* log has an entry whose payload carries the transition's hash.
C16_TransitionsChained ==
    \A i \in 1..Len(transitions) :
        \E j \in 1..Len(auditLogs) : Carries(auditLogs[j], transitions[i].hash)

\* how many times transition() changed the state of the server's model
TransitionsApplied ==
    Cardinality({i \in 1..Len(applied) : applied[i].call = "transition"})

\* C17: once every /api/inference request made has completed, the rows of
\* state_transitions are as many as the times transition() changed the
\* model's state.
C17_EveryTransitionStored ==
    (\A i \in 1..Len(jobs) : jobs[i].status = "completed")
        => Len(transitions) = TransitionsApplied

\* a step in which the caller wrote into an array it got as `from`
MutatedArrayFrom(from) ==
    /\ ret'.op = "mutate"
    /\ heap' # heap
    /\ heap[ret'.arg.ref].from \in from

\* C18: writing into the array getState() returned never changes the model's
\* state: what a following getState() or transition() reads is as it was.
C18_GetStateCopies ==
    [][ MutatedArrayFrom({"getState"}) => getState("a")' = getState("a") ]_vars

\* the caller has written into an array that getState() returned when the
\* model had left the zero state, and the array now differs from the state
C18_Witness ==
    /\ ret.op = "mutate"
    /\ heap[ret.arg.ref].from = "getState"
    /\ heap[ret.arg.ref].a # getState("a")
    /\ getState("a") # ZeroState(Config)

\* C19: writing into an array of a record transition() returned (prevState,
\* nextState, input, output) leaves getState() unchanged.
C19_RecordHoldsCopies ==
    [][ MutatedArrayFrom(VectorFields) => getState("a")' = getState("a") ]_vars

\* the calls made on instance a since its last reset()
SinceReset ==
    LET h == hist["a"]
        resets == {i \in 1..Len(h) : h[i].op = "reset"}
        last == CHOOSE i \in resets : \A j \in resets : j <= i
    IN  SubSeq(h, last + 1, Len(h))

\* a freshly constructed model given the inputs of `calls`: the outcomes of
\* its calls so far and its state, starting from `run`
RECURSIVE FreshRun(_, _)
FreshRun(calls, run) ==
    IF calls = <<>> THEN run
    ELSE LET u == Head(calls).arg.a
             r == transition(Config, run.state, keyPair["b"], streaming, u, 0)
         IN  FreshRun(Tail(calls),
                      [outcomes |-> Append(run.outcomes,
                                           Outcome(Call("transition", "b", Arr(u),
                                                        r.threw, r.value))),
                       state |-> r.state])

\* C20: once reset() has been called, the state is the zero vector and the
\* calls made since have the (prevState, nextState, output) a freshly
\* constructed model returns for the same inputs, and leave the same state.
C20_ResetIsFresh ==
    (\E i \in 1..Len(hist["a"]) : hist["a"][i].op = "reset") =>
        LET fresh == FreshRun(SinceReset, [outcomes |-> <<>>, state |-> ZeroState(Config)])
        IN  /\ SinceReset = <<>> => getState("a") = [i \in 1..Config.stateSize |-> Zero]
            /\ \A i \in 1..Len(SinceReset) : Outcome(SinceReset[i]) = fresh.outcomes[i]
            /\ getState("a") = fresh.state

\* instance a was reset in a non-zero state and has since returned a record,
\* which starts from the zero state
C20_Witness ==
    \E k \in 2..Len(hist["a"]) :
        /\ hist["a"][k].op = "reset"
        /\ hist["a"][k - 1].value.t = "obj"
        /\ Get(hist["a"][k - 1].value, "nextState").a # ZeroState(Config)
        /\ Len(SinceReset) >= 1
        /\ SinceReset[1].value.t = "obj"
        /\ Get(SinceReset[1].value, "prevState").a = ZeroState(Config)
        /\ getState("a") # ZeroState(Config)

\* the shape the sizes of a configuration declare
HasShape(M, rows, cols) == Len(M) = rows /\ \A i \in 1..Len(M) : Len(M[i]) = cols
WellShaped(config) ==
    /\ HasShape(config.A, config.stateSize, config.stateSize)
    /\ HasShape(config.B, config.stateSize, config.inputSize)
    /\ HasShape(config.C, config.outputSize, config.stateSize)
    /\ HasShape(config.D, config.outputSize, config.inputSize)

\* C21: constructing a model from a configuration with a matrix that has not
\* the declared shape fails, and no model results.
C21_ShapeChecked ==
    (ret.op = "new" /\ ret.model = "c" /\ ~WellShaped(ret.arg))
        => (ret.threw /\ inst = NotBuilt)

\* a vector with an entry that is NaN, +Infinity or -Infinity
HasNonFinite(v) == \E i \in 1..Len(v) : ~IsFinite(v[i])

\* C22: transition called with a vector that holds a non-finite value throws,
\* so that no record with such a value is hashed and signed, and the state is
\* as it was before the call.
C22_NonFiniteRejected ==
    [][ (IsTransitionStep /\ HasNonFinite(ret'.arg.a))
        => (ret'.threw /\ currentState' = currentState) ]_vars

\* the record R with its properties in another order: two neighbours
\* exchanged, or all of them reversed
Reordered(R) ==
    {Obj([i \in 1..Len(R.f) |->
            IF i = k THEN R.f[k + 1] ELSE IF i = k + 1 THEN R.f[k] ELSE R.f[i]])
        : k \in 1..(Len(R.f) - 1)}
    \cup {Obj([i \in 1..Len(R.f) |-> R.f[Len(R.f) + 1 - i]])}

\* C23: a record transition() returned, with its properties in another
\* order, has the same hash and is accepted by verifyTransition as the record
\* itself is.
C23_HashCanonical ==
    \A m \in Lib : \A R \in Issued(m) : \A Q \in Reordered(R) :
        /\ hashState(verifyData(Q)) = Get(R, "hash")
        /\ verifyTransition(keyPair[m], streaming, Q)
               = verifyTransition(keyPair[m], streaming, R)

\* C24: no call changes an instance's key pair: getPublicKey() returns after
\* every call what it returned before it, and is the key the constructor
\* generated; a record that verified before a call, a reset included,
\* verifies after it.
C24_KeysGeneratedOnce ==
    [][ \A m \in Lib :
          /\ getPublicKey(m)' = getPublicKey(m)
          /\ getPublicKey(m)' = generateKeyPair(InstanceNo(m)).publicKey
          /\ \A R \in Issued(m) :
                verifyTransition(keyPair[m], streaming, R).value = Bool(TRUE)
                    => verifyTransition(keyPair'[m], streaming', R).value = Bool(TRUE) ]_vars

\* a record has been verified by the instance that returned it, after that
\* instance was reset
C24_Witness ==
    /\ ret.op = "verify" /\ ret.model \in Lib
    /\ ret.value = Bool(TRUE)
    /\ \E i \in 1..Len(hist[ret.model]) : \E k \in (i + 1)..Len(hist[ret.model]) :
          /\ hist[ret.model][i].value = ret.arg
          /\ hist[ret.model][k].op = "reset"
    /\ getPublicKey(ret.model) = generateKeyPair(InstanceNo(ret.model)).publicKey

\* C25: two calls of infer with the same prompt and the same seed that
\* returned, returned the same result text and the same confidence, whatever
\* was called in between.
C25_InferReproducible ==
    \A i, j \in 1..Len(hist["a"]) :
        LET c == hist["a"][i]
            d == hist["a"][j]
        IN  (c.op = "infer" /\ d.op = "infer" /\ c.arg = d.arg /\ ~c.threw /\ ~d.threw)
                => /\ Get(c.value, "result") = Get(d.value, "result")
                   /\ Get(c.value, "confidence") = Get(d.value, "confidence")

\* a key is a private one
IsPrivateKey(key) == key.pem = "PRIVATE KEY"
\* the JavaScript value v is, or holds in a property, a private key
RECURSIVE HoldsPrivateKey(_)
HoldsPrivateKey(v) ==
    CASE v.t = "obj" -> \E i \in 1..Len(v.f) : HoldsPrivateKey(v.f[i].val)
      [] v.t = "str" -> "pem" \in DOMAIN v.c /\ IsPrivateKey(v.c)
      [] OTHER -> FALSE

\* C26: nothing the server hands out or stores holds a private key: not the
\* value of a call of its model, not the body, the system state's public key
\* or the audit entries of a response, not a row of a table.
C26_PrivateKeyStaysInside ==
    /\ ret.value.t # "http" => ~HoldsPrivateKey(ret.value)
    /\ ret.value.t = "http" =>
          /\ "body" \in DOMAIN ret.value => ~HoldsPrivateKey(ret.value.body)
          /\ "publicKey" \in DOMAIN ret.value =>
                /\ ~IsPrivateKey(ret.value.publicKey)
                /\ ret.value.publicKey = keyPair[ServerModel].publicKey
          /\ "logs" \in DOMAIN ret.value =>
                \A i \in 1..Len(ret.value.logs) :
                    /\ ~HoldsPrivateKey(ret.value.logs[i].event_hash)
                    /\ ~HoldsPrivateKey(ret.value.logs[i].prev_log_hash)
    /\ \A R \in Stored : ~HoldsPrivateKey(R)
    /\ \A i \in 1..Len(jobs) :
          ~HoldsPrivateKey(jobs[i].prompt) /\ ~HoldsPrivateKey(jobs[i].result)
    /\ \A i \in 1..Len(auditLogs) :
          ~HoldsPrivateKey(auditLogs[i].event_hash)
          /\ ~HoldsPrivateKey(auditLogs[i].prev_log_hash)

\* /api/stats has answered with the public key, on a server that has stored
\* a signed transition
C26_Witness ==
    /\ ret.op = "GET /api/stats"
    /\ ret.value.publicKey = keyPair[ServerModel].publicKey
    /\ \E R \in Stored : Get(R, "signature").t = "str"

\* C27: a call of transition that returns no record, because the size check
\* failed or because hashing or signing threw, leaves the state as it was.
C27_NoPartialTransition ==
    [][ (ret'.op = "transition" /\ ret'.threw) => currentState' = currentState ]_vars

\* C28: the state of an instance the constructor returned has stateSize
\* entries, after construction and after every call of transition and reset.
C28_StateLengthFixed ==
    inst # NotBuilt => Len(inst.currentState) = inst.config.stateSize

\* C29: as long as the server's model has not been reset, the rows of
\* state_transitions in insertion order replay: the first row starts from the
\* zero vector and every later row starts from where the row before it ended.
C29_StoredHistoryReplays ==
    (\A k \in 1..Len(applied) : applied[k] # ResetCall) =>
        \A i \in 1..Len(transitions) :
            transitions[i].prev_state =
                IF i = 1 THEN ValueToJSON(Arr(ZeroState(Config)))
                ELSE transitions[i - 1].next_state

\* C30: every row of inference_jobs with status 'processing' is sooner or
\* later a row with status 'completed' or 'failed'.
C30_JobsSettle ==
    \A i \in 1..MaxTasks :
        (Len(jobs) >= i /\ jobs[i].status = "processing")
            ~> (Len(jobs) >= i /\ jobs[i].status \in {"completed", "failed"})

\* the rows of state_transitions that belong to the job
RowsOfJob(id) == {k \in 1..Len(transitions) : transitions[k].job_id = id}
\* completedJobs <= totalTransitions <= totalJobs
StatsOrdered(stats) ==
    /\ stats.completedJobs <= stats.totalTransitions
    /\ stats.totalTransitions <= stats.totalJobs

\* C31: every job with status 'completed' has exactly one row in
\* state_transitions, and the counts getStats() reports, in the tables and in
\* every answer of GET /api/stats, satisfy
\* completedJobs <= totalTransitions <= totalJobs.
C31_CompletedJobsHaveOneRow ==
    /\ \A i \in 1..Len(jobs) :
          jobs[i].status = "completed" => Cardinality(RowsOfJob(jobs[i].id)) = 1
    /\ StatsOrdered(getStats(jobs, transitions))
    /\ ret.op = "GET /api/stats" => StatsOrdered(ret.value.stats)

\* two jobs have completed and GET /api/stats has counted them
C31_Witness ==
    /\ ret.op = "GET /api/stats"
    /\ ret.value.stats.completedJobs = 2
    /\ ret.value.stats.totalTransitions = 2

\* the audit entries, by row, of one event type whose payload names the job
EntriesFor(eventType, id) ==
    {k \in 1..Len(auditLogs) :
        /\ auditLogs[k].event_type = eventType
        /\ \E i \in 1..Len(auditLogs[k].event_data.c) :
              auditLogs[k].event_data.c[i] = [key |-> "jobId", json |-> [num |-> Fin(id, 1)]]}

ResetsApplied == Cardinality({i \in 1..Len(applied) : applied[i] = ResetCall})
\* the 'system_reset' entries of the audit log
ResetsLogged ==
    Cardinality({k \in 1..Len(auditLogs) : auditLogs[k].event_type = "system_reset"})

ForgedFrom(R) ==
    {SetField(T, "hash", hashState(verifyData(T))) :
        T \in ElementChanged(R) \cup TimestampChanged(R) \cup FieldAdded(R)}

\* C34: a record made from one transition() returned by changing its content
\* and recomputing its hash, with the original signature kept, is rejected by
\* verifyTransition.
C34_ForgeryRejected ==
    \A m \in Lib : \A R \in Issued(m) : \A F \in ForgedFrom(R) :
        verifyTransition(keyPair[m], streaming, F).value = Bool(FALSE)

(***************************************************************************)
(* The text logAuditEvent hashes, character by character.  Here a text is  *)
(* a string, JSON.stringify writes the text it writes in JavaScript, and a *)
(* digest is a text of 64 hexadecimal digits; which digits SHA-256 gives   *)
(* is left open.                                                           *)
(***************************************************************************)
\* the audit entries one database receives in this check
MaxAppends == 2

\* count copies of the character c
RECURSIVE Repeat(_, _)
Repeat(c, count) == IF count = 0 THEN "" ELSE c \o Repeat(c, count - 1)

\* s.substring(0, end)
substring0(s, end) == SubSeq(s, 1, IF Len(s) < end THEN Len(s) ELSE end)


\* JSON.stringify of a string without its quotes: a quote and a backslash
\* get a backslash in front
RECURSIVE JSONescape(_)
JSONescape(s) ==
    IF s = "" THEN ""
    ELSE LET c == SubSeq(s, 1, 1)
         IN  (IF c = "\"" \/ c = "\\" THEN "\\" \o c ELSE c)
             \o JSONescape(SubSeq(s, 2, Len(s)))
\* JSON.stringify of a string
JSONquote(s) == "\"" \o JSONescape(s) \o "\""
\* JSON.stringify of a number: a whole number, or a number of hundredths
\* between 0.1 and 1
JSONnumber(x) ==
    IF x.d = 1 THEN ToString(x.n)
    ELSE LET h == (100 * x.n) \div x.d
         IN  "0." \o ToString(h \div 10) \o (IF h % 10 = 0 THEN "" ELSE ToString(h % 10))

\* JSON.stringify(eventData) for the three payloads the server logs
startedText(jobId, prompt) ==
    "{\"jobId\":" \o JSONnumber(Fin(jobId, 1)) \o ",\"prompt\":"
    \o JSONquote(substring0(prompt, 50)) \o "}"
completedText(jobId, confidence) ==
    "{\"jobId\":" \o JSONnumber(Fin(jobId, 1)) \o ",\"confidence\":"
    \o JSONnumber(confidence) \o "}"
resetText == "{}"

\* no previous hash, and a previous hash
NoHash == [t |-> "null", hex |-> ""]
HexHash(digits) == [t |-> "str", hex |-> digits]
\* eventType + dataString, the previous hash left out
auditHashTextWithoutPrev(eventType, dataString, prevHash) == eventType \o dataString
\* eventType + dataString + (prevHash || '')
auditHashText(eventType, dataString, prevHash) ==
    eventType \o dataString \o (IF prevHash.t = "null" THEN "" ELSE prevHash.hex)

\* digests: 64 hexadecimal digits
HexDigests == {Repeat("0", 64), Repeat("e", 64)}
\* job ids
JobIds == {1, 12}
\* prompts: a plain one, one that closes a JSON text, and one that closes a
\* JSON text and goes on with hexadecimal digits for longer than 50 characters
AuditPrompts == {"hello", "\"}", "0\"}" \o Repeat("0", 64)}
\* the event types and payloads of the three calls of logAuditEvent
AuditEvents ==
    {<<"inference_started", startedText(j, p)>> : j \in JobIds, p \in AuditPrompts}
    \cup {<<"inference_completed", completedText(j, inferConfidence(p))>> :
             j \in JobIds, p \in Prompts \cup AnalysisPrompts}
    \cup {<<"system_reset", resetText>>}
\* what the appends of any database are made from
AppendInputs ==
    {[event_type |-> ev[1], event_data |-> ev[2], prev_log_hash |-> prev] :
        ev \in AuditEvents, prev \in {NoHash} \cup {HexHash(d) : d \in HexDigests}}
\* the text an append feeds to the hash function
HashedText(x) == auditHashText(x.event_type, x.event_data, x.prev_log_hash)

\* logAuditEvent, text by text: the previous hash is null on an empty table
\* and the event_hash of a row otherwise (the newest by created_at, which may
\* be any row)
LogAuditEventText(ev) ==
    /\ Len(appended) < MaxAppends
    /\ \E prev \in IF appended = <<>> THEN {NoHash}
                   ELSE {HexHash(appended[i].event_hash) : i \in 1..Len(appended)} :
       \E digest \in HexDigests :
          appended' = Append(appended,
                          [event_type |-> ev[1], event_data |-> ev[2],
                           prev_log_hash |-> prev, event_hash |-> digest,
                           hashed |-> auditHashText(ev[1], ev[2], prev)])
    /\ UNCHANGED <<streaming, currentState, keyPair, now, hist, ret, dbVars, applied,
                   tasks, running, heap, stateRef, steps, inst, licenseFile, licenseLog, rng>>

NextText == \E ev \in AuditEvents : LogAuditEventText(ev)

\* the server's audit log as text
SpecText == Init /\ [][NextText]_vars

\* what an append was made from
InputsOf(row) ==
    [event_type |-> row.event_type, event_data |-> row.event_data,
     prev_log_hash |-> row.prev_log_hash]

\* C35: two appends that differ in event type, serialized payload or
\* previous hash feed different texts to the hash function: the appends of
\* one log among themselves, and each of them against every append any log
\* may receive.
C35_HashInputUnambiguous ==
    /\ \A i, j \in 1..Len(appended) :
          InputsOf(appended[i]) # InputsOf(appended[j])
              => appended[i].hashed # appended[j].hashed
    /\ \A i \in 1..Len(appended) : \A x \in AppendInputs :
          InputsOf(appended[i]) # x => appended[i].hashed # HashedText(x)

\* a log whose two entries have the same event type and payload and differ
\* in the previous hash only, the first having none
C35_Witness ==
    /\ Len(appended) = 2
    /\ appended[1].event_type = appended[2].event_type
    /\ appended[1].event_data = appended[2].event_data
    /\ appended[1].prev_log_hash = NoHash
    /\ appended[2].prev_log_hash # NoHash

\* the min(limit, n) rows inserted last, the last one first
NewestFirst(rows, limit) ==
    [i \in 1..(IF limit < Len(rows) THEN limit ELSE Len(rows)) |-> rows[Len(rows) + 1 - i]]

\* C36: getAuditLogs(limit) returns the min(limit, n) entries appended last
\* in reverse insertion order, for every limit and also when entries share a
\* created_at, and so does GET /api/audit.
C36_NewestFirst ==
    /\ \A limit \in 0..(Len(auditLogs) + 1) :
          getAuditLogs(auditLogs, limit) = {NewestFirst(auditLogs, limit)}
    /\ ret.op = "GET /api/audit" => ret.value.logs = NewestFirst(auditLogs, DefaultLimit)

(***************************************************************************)
(* LicenseManager (src/src/license.ts).  license.json is a file that       *)
(* exists or not; its text is what JSON.stringify wrote, and it is whole   *)
(* unless a write was cut short.  writeFileSync opens the file truncating  *)
(* it and then writes: a write that fails leaves the file as it was (the   *)
(* open was refused) or cut (the open succeeded, the write did not).       *)
(***************************************************************************)
\* calls made to the LicenseManager
MaxLicenseCalls == 3

\* [A-Z0-9]
KeyChars ==
    {"A", "B", "C", "D", "E", "F", "G", "H", "I", "J", "K", "L", "M", "N", "O", "P", "Q",
     "R", "S", "T", "U", "V", "W", "X", "Y", "Z",
     "0", "1", "2", "3", "4", "5", "6", "7", "8", "9"}

\* (-[A-Z0-9]{4}){groups}$ matched against the rest of the key
RECURSIVE matchGroups(_, _)
matchGroups(rest, groups) ==
    IF groups = 0 THEN rest = ""
    ELSE /\ Len(rest) >= 5
         /\ SubSeq(rest, 1, 1) = "-"
         /\ \A i \in 2..5 : SubSeq(rest, i, i) \in KeyChars
         /\ matchGroups(SubSeq(rest, 6, Len(rest)), groups - 1)
\* the same without the $
RECURSIVE matchGroupsUnanchored(_, _)
matchGroupsUnanchored(rest, groups) ==
    IF groups = 0 THEN TRUE
    ELSE /\ Len(rest) >= 5
         /\ SubSeq(rest, 1, 1) = "-"
         /\ \A i \in 2..5 : SubSeq(rest, i, i) \in KeyChars
         /\ matchGroupsUnanchored(SubSeq(rest, 6, Len(rest)), groups - 1)
\* /^AXIOM-[A-Z0-9]{4}-[A-Z0-9]{4}-[A-Z0-9]{4}-[A-Z0-9]{4}/, no $ at the end
validateKeyFormatUnanchored(key) ==
    /\ Len(key) >= 5
    /\ SubSeq(key, 1, 5) = "AXIOM"
    /\ matchGroupsUnanchored(SubSeq(key, 6, Len(key)), 4)
\* /^AXIOM-[A-Z0-9]{4}-[A-Z0-9]{4}-[A-Z0-9]{4}-[A-Z0-9]{4}$/.test(key)
validateKeyFormat(key) ==
    /\ Len(key) >= 5
    /\ SubSeq(key, 1, 5) = "AXIOM"
    /\ matchGroups(SubSeq(key, 6, Len(key)), 4)

\* the format is all that is verified: a well-formed key is accepted
verifyLicenseKey(key, email) == validateKeyFormat(key)

\* generateMachineId: sixteen hexadecimal digits of the hash of hostname,
\* platform, architecture and CPU model
generateMachineId(host) == Str([machine |-> host])
\* this.machineId, on the one machine
machineId == generateMachineId("host")

\* the License object of activateLicense
License(key, email, clock) ==
    Obj(<< Field("key", Str([lit |-> key])), Field("email", Str([lit |-> email])),
           Field("activatedAt", NumV(Fin(clock, 1))), Field("expiresAt", Null),
           Field("machineId", machineId) >>)

\* JSON.parse of a text JSON.stringify wrote
JSONvalue(j) ==
    CASE "str" \in DOMAIN j -> Str(j.str)
      [] "num" \in DOMAIN j -> IF j.num = JsonNull THEN Null ELSE NumV(j.num)
      [] "bool" \in DOMAIN j -> Bool(j.bool)
      [] OTHER -> Null
JSONparse(text) == Obj([i \in 1..Len(text) |-> Field(text[i].key, JSONvalue(text[i].json))])

\* license.json after a write that went through, and after one that was cut
FileWith(text) == [exists |-> TRUE, text |-> text, whole |-> TRUE]
CutFile == [exists |-> TRUE, text |-> <<>>, whole |-> FALSE]
\* how fs.writeFileSync may end, and how fs.unlinkSync may
WriteOutcomes == {"written", "refused", "cut"}
UnlinkOutcomes == {"removed", "refused"}

\* activateLicense(key, email): what it returns and the file it leaves
activateLicense(file, key, email, clock, write) ==
    IF ~verifyLicenseKey(key, email) THEN [value |-> FALSE, file |-> file]
    ELSE CASE write = "written" ->
                [value |-> TRUE, file |-> FileWith(JSONstringify(License(key, email, clock)))]
           [] write = "refused" -> [value |-> FALSE, file |-> file]
           [] write = "cut" -> [value |-> FALSE, file |-> CutFile]

\* isLicensed()
isLicensed(file, clock) ==
    IF ~file.exists THEN FALSE
    ELSE IF ~file.whole THEN FALSE
    ELSE LET license == JSONparse(file.text)
             expiresAt == Get(license, "expiresAt")
         IN  IF Get(license, "machineId") # machineId THEN FALSE
             ELSE IF ~Falsy(expiresAt) /\ expiresAt.v.n < clock * expiresAt.v.d THEN FALSE
             ELSE verifyLicenseKey(Get(license, "key").c.lit, Get(license, "email").c.lit)

\* getLicenseInfo()
getLicenseInfo(file) ==
    IF ~file.exists THEN Null
    ELSE IF ~file.whole THEN Null
    ELSE JSONparse(file.text)

\* deactivateLicense(): what it returns and the file it leaves
deactivateLicense(file, unlink) ==
    IF ~file.exists THEN [value |-> TRUE, file |-> file]
    ELSE IF unlink = "removed" THEN [value |-> TRUE, file |-> NoFile]
    ELSE [value |-> FALSE, file |-> file]

\* the keys a user enters: two of the format (the README's example among
\* them), and keys that are in lower case, one group short, one group long,
\* followed by a line feed, holding another character, and empty
GoodKeys == {"AXIOM-A1B2-C3D4-E5F6-G7H8", "AXIOM-0000-ZZZZ-0000-ZZZZ"}
BadKeys ==
    {"axiom-a1b2-c3d4-e5f6-g7h8", "AXIOM-A1B2-C3D4-E5F6", "AXIOM-A1B2-C3D4-E5F6-G7H8-I9J0",
     "AXIOM-A1B2-C3D4-E5F6-G7H8\n", "AXIOM-A1B2-C3D4-E5F6-G7_8", ""}
Emails == {"user@example.com"}

LicenseCall(op, key, value) == [op |-> op, key |-> key, value |-> value]

ActivateLicense(key, email, write) ==
    /\ Len(licenseLog) < MaxLicenseCalls
    /\ LET r == activateLicense(licenseFile, key, email, now, write)
       IN  /\ licenseFile' = r.file
           /\ licenseLog' = Append(licenseLog, LicenseCall("activateLicense", key, Bool(r.value)))
    /\ UNCHANGED <<streaming, currentState, keyPair, now, hist, ret, dbVars, applied,
                   tasks, running, heap, stateRef, steps, inst, appended, rng>>

DeactivateLicense(unlink) ==
    /\ Len(licenseLog) < MaxLicenseCalls
    /\ LET r == deactivateLicense(licenseFile, unlink)
       IN  /\ licenseFile' = r.file
           /\ licenseLog' = Append(licenseLog, LicenseCall("deactivateLicense", "", Bool(r.value)))
    /\ UNCHANGED <<streaming, currentState, keyPair, now, hist, ret, dbVars, applied,
                   tasks, running, heap, stateRef, steps, inst, appended, rng>>

IsLicensed ==
    /\ Len(licenseLog) < MaxLicenseCalls
    /\ licenseLog' = Append(licenseLog,
                            LicenseCall("isLicensed", "", Bool(isLicensed(licenseFile, now))))
    /\ UNCHANGED <<streaming, currentState, keyPair, now, hist, ret, dbVars, applied,
                   tasks, running, heap, stateRef, steps, inst, appended, licenseFile, rng>>

GetLicenseInfo ==
    /\ Len(licenseLog) < MaxLicenseCalls
    /\ licenseLog' = Append(licenseLog,
                            LicenseCall("getLicenseInfo", "", getLicenseInfo(licenseFile)))
    /\ UNCHANGED <<streaming, currentState, keyPair, now, hist, ret, dbVars, applied,
                   tasks, running, heap, stateRef, steps, inst, appended, licenseFile, rng>>

NextLicense ==
    \/ Tick
    \/ \E key \in GoodKeys \cup BadKeys : \E email \in Emails : \E write \in WriteOutcomes :
          ActivateLicense(key, email, write)
    \/ \E unlink \in UnlinkOutcomes : DeactivateLicense(unlink)
    \/ IsLicensed
    \/ GetLicenseInfo

\* the LicenseManager of one machine and its user
SpecLicense == Init /\ [][NextLicense]_vars


\* AXIOM-XXXX-XXXX-XXXX-XXXX: 25 characters, the prefix, a hyphen before
\* each group, and 16 characters from A-Z and 0-9
HasKeyFormat(key) ==
    /\ Len(key) = 25
    /\ SubSeq(key, 1, 6) = "AXIOM-"
    /\ \A i \in 7..25 :
          IF i \in {11, 16, 21} THEN SubSeq(key, i, i) = "-"
          ELSE SubSeq(key, i, i) \in KeyChars
\* the call made last
LastLicenseCall(log) == log[Len(log)]

\* C37: activateLicense with a key that is not of the format
\* AXIOM-XXXX-XXXX-XXXX-XXXX returns false and leaves license.json as it
\* was: not created, not overwritten, not removed.
C37_BadKeyChangesNothing ==
    [][ ( /\ licenseLog' # licenseLog
          /\ LastLicenseCall(licenseLog').op = "activateLicense"
          /\ ~HasKeyFormat(LastLicenseCall(licenseLog').key) )
        => ( /\ LastLicenseCall(licenseLog').value = Bool(FALSE)
             /\ licenseFile' = licenseFile ) ]_vars

\* a license was stored, and an activation with a malformed key has been
\* refused since
C37_Witness ==
    /\ Len(licenseLog) >= 2
    /\ licenseLog[1].op = "activateLicense" /\ licenseLog[1].value = Bool(TRUE)
    /\ LastLicenseCall(licenseLog).op = "activateLicense"
    /\ LastLicenseCall(licenseLog).key = "AXIOM-A1B2-C3D4-E5F6-G7H8-I9J0"
    /\ LastLicenseCall(licenseLog).value = Bool(FALSE)
    /\ getLicenseInfo(licenseFile) # Null


\* the calls of activateLicense and deactivateLicense that returned true
Successful(log) ==
    {i \in 1..Len(log) :
        log[i].op \in {"activateLicense", "deactivateLicense"} /\ log[i].value = Bool(TRUE)}
\* the last successful call was an activation
Entitled(log) ==
    LET at == Successful(log)
    IN  at # {} /\ log[CHOOSE i \in at : \A j \in at : j <= i].op = "activateLicense"

\* C38: isLicensed() is true exactly when the last successful call of
\* activateLicense or deactivateLicense was an activation, and
\* getLicenseInfo() is null when it was not: in what the file holds now and
\* in what every call made has returned.
C38_LicensedBetween ==
    /\ isLicensed(licenseFile, now) = Entitled(licenseLog)
    /\ ~Entitled(licenseLog) => getLicenseInfo(licenseFile) = Null
    /\ \A i \in 1..Len(licenseLog) :
          LET before == SubSeq(licenseLog, 1, i - 1)
          IN  /\ licenseLog[i].op = "isLicensed" =>
                    licenseLog[i].value = Bool(Entitled(before))
              /\ (licenseLog[i].op = "getLicenseInfo" /\ ~Entitled(before)) =>
                    licenseLog[i].value = Null

(***************************************************************************)
(* createSeededRNG (src/src/inference.ts:75-82), a linear congruential     *)
(* generator on JavaScript numbers.  A 32-bit value is kept as two 16-bit  *)
(* halves, value = hi * 65536 + lo, and the step is computed half by half  *)
(* as the exact product; `over` is what the step's value held above its    *)
(* low 32 bits before % 4294967296 took it away.  A double holds every     *)
(* integer below 2^53 = 2^21 * 2^32 exactly.                               *)
(***************************************************************************)
\* draws from one generator
MaxDraws == 3
\* state * 1664525 + 1013904223
Multiplier == 1664525
Increment == 1013904223
\* 4294967296 = Half * Half
Half == 65536

Word(hi, lo) == [hi |-> hi, lo |-> lo]
\* state * 1664525 + 1013904223 with no % 4294967296: the upper half keeps
\* what the reduction takes away
rngStepUnreduced(state) ==
    LET low == state.lo * (Multiplier % Half) + (Increment % Half)
        mid == state.lo * (Multiplier \div Half) + state.hi * (Multiplier % Half)
               + (Increment \div Half) + (low \div Half)
        top == state.hi * (Multiplier \div Half) + (mid \div Half)
    IN  [state |-> Word(top * Half + (mid % Half), low % Half), over |-> 0]
\* state = (state * 1664525 + 1013904223) % 4294967296
rngStep(state) ==
    LET low == state.lo * (Multiplier % Half) + (Increment % Half)
        mid == state.lo * (Multiplier \div Half) + state.hi * (Multiplier % Half)
               + (Increment \div Half) + (low \div Half)
        top == state.hi * (Multiplier \div Half) + (mid \div Half)
    IN  [state |-> Word(mid % Half, low % Half), over |-> top]

\* Math.floor((state / 4294967296) * length)
floorOfScaled(state, length) == (length * state.hi + (length * state.lo) \div Half) \div Half

\* the three greetings and the three generic responses, by what tells them
\* apart
greetings == <<"Hello!", "Hi there!", "Greetings!">>
responses(prompt) ==
    << "I've processed your request", "Your query \"" \o substring0(prompt, 50) \o "...\"",
       "Axiom Hive has analyzed your request" >>
\* array[index], undefined outside the array
Element(array, index) ==
    IF index + 1 \in 1..Len(array) THEN [t |-> "str", text |-> array[index + 1]]
    ELSE Undefined
\* generateGreeting and generateGenericResponse, the generator having made
\* its step to `state`
generateGreeting(state) == Element(greetings, floorOfScaled(state, Len(greetings)))
generateGenericResponse(prompt, state) ==
    Element(responses(prompt), floorOfScaled(state, Len(responses(prompt))))

\* seeds: the ends and the middle of 0..2^32-1 in each half, the seed whose
\* first step gives 4294967295 (653637408) and the one whose first step
\* gives 0 (634785765)
RngSeeds ==
    {Word(hi, lo) : hi \in {0, 1, 32767, 32768, 65535}, lo \in {0, 1, 32767, 32768, 65535}}
    \cup {Word(9973, 46880), Word(9686, 4069)}

\* const rng = this.createSeededRNG(seed)
CreateSeededRNG(seed) ==
    /\ rng = Unseeded
    /\ rng' = [seeded |-> TRUE, seed |-> seed, state |-> seed, over |-> 0, draws |-> 0,
               greeting |-> Undefined, response |-> Undefined]
    /\ UNCHANGED <<streaming, currentState, keyPair, now, hist, ret, dbVars, applied,
                   tasks, running, heap, stateRef, steps, inst, appended, licenseFile,
                   licenseLog>>

\* rng(), and what generateGreeting and generateGenericResponse select with
\* the value it returns
Draw ==
    /\ rng # Unseeded
    /\ rng.draws < MaxDraws
    /\ LET r == rngStep(rng.state)
       IN  rng' = [rng EXCEPT !.state = r.state, !.over = r.over, !.draws = @ + 1,
                              !.greeting = generateGreeting(r.state),
                              !.response = generateGenericResponse("status report", r.state)]
    /\ UNCHANGED <<streaming, currentState, keyPair, now, hist, ret, dbVars, applied,
                   tasks, running, heap, stateRef, steps, inst, appended, licenseFile,
                   licenseLog>>

NextRng ==
    \/ \E seed \in RngSeeds : CreateSeededRNG(seed)
    \/ Draw

\* one seeded generator and its draws
SpecRng == Init /\ [][NextRng]_vars

\* C39: for a seed in 0..2^32-1 the generator's state is after every step an
\* integer in 0..2^32-1 (the step's value before the reduction is below 2^53,
\* so the arithmetic on doubles is exact), the value returned, state / 2^32,
\* lies in [0, 1), and the greeting and the generic response selected are
\* each one of the three templates.
C39_GeneratorInRange ==
    rng # Unseeded =>
        /\ rng.state.hi \in 0..(Half - 1)
        /\ rng.state.lo \in 0..(Half - 1)
        /\ rng.over \in 0..(32 * Half - 1)
        /\ rng.draws > 0 =>
              /\ floorOfScaled(rng.state, 1) = 0
              /\ \E i \in 1..3 : rng.greeting = [t |-> "str", text |-> greetings[i]]
              /\ \E i \in 1..3 :
                    rng.response = [t |-> "str", text |-> responses("status report")[i]]

\* the seed whose first step gives the largest state, 4294967295: the value
\* returned is the largest below 1 and the third template is selected
C39_Witness ==
    /\ rng # Unseeded
    /\ rng.seed = Word(9973, 46880)
    /\ rng.draws = 1
    /\ rng.state = Word(65535, 65535)
    /\ rng.greeting = [t |-> "str", text |-> "Greetings!"]
=============================================================================
